---- MODULE Spec2Model ----
(***************************************************************************)
(* A model of the Lox tree-walking interpreter: the environment chain      *)
(* (environment.rs), the resolver (resolver.rs), the evaluator             *)
(* (interpreter.rs, stl.rs), the for-loop desugaring of the parser         *)
(* (parser.rs) and the driver (main.rs).                                   *)
(*                                                                         *)
(* Rc<RefCell<Environment>> handles are indices into the sequence `heap`;  *)
(* Rc<RefCell<Box<dyn LoxCallable>>> handles are indices into `cells`.     *)
(* Lox numbers are modelled as integers.                                   *)
(***************************************************************************)
EXTENDS Integers, Sequences, FiniteSets, TLC

VARIABLES
  heap,          \* the Environment cells: heap[i] = [values, enclosing]
  cells,         \* the callable cells: cells[c] = a ClockCallable or a LoxFunction
  environment,   \* Interpreter.environment: the current frame
  locals,        \* Interpreter.locals: the resolver's side table
  phase,         \* where run() is: "start", "resolve", "interpret", or how it ended
  mode,          \* "script" (run_file) or "repl" (run_prompt)
  program,       \* which source text was read
  stmts,         \* the statements Parser::parse returned for it
  pc,            \* interpret(): the index of the next top-level statement
  out,           \* the lines written to stdout by print
  err,           \* the reports of the resolver and of interpret(), and the message of a panic
  exit_code,     \* the exit code of the process, -1 while it runs
  results,       \* what execute() returned for each top-level statement so far
  blocks,        \* the execute_block calls that have ended, in order
  resolve_calls, \* the Interpreter::resolve calls the resolver made, in order
  env_call,      \* SpecEnv: the last Environment call and what it returned
  accesses,      \* the variable reads and writes of the evaluator, in order
  parser,        \* SpecParser: the Parser struct and the locals of Parser::parse
  resolver       \* SpecResolver: the Resolver struct and the position of resolve()

(***************************************************************************)
(* Bounds                                                                  *)
(***************************************************************************)
MaxFrames == 3      \* SpecEnv: frames allocated in the chain
MaxProgLen == 2     \* Spec: statements of a program drawn from the pool
MaxLoopIter == 4    \* Spec: loop iterations within one top-level statement
MaxTokens == 4      \* SpecParser: tokens of a stream before its Eof

(***************************************************************************)
(* LoxValue (lexer.rs 9-18).  One record shape for every variant.          *)
(***************************************************************************)
NilV == [t |-> "Nil", n |-> 0, s |-> ""]
NumberV(n) == [t |-> "Number", n |-> n, s |-> ""]
StringV(s) == [t |-> "String", n |-> 0, s |-> s]
BooleanV(b) == [t |-> "Boolean", n |-> IF b THEN 1 ELSE 0, s |-> ""]
CallableV(c) == [t |-> "Callable", n |-> c, s |-> ""]
\* LoxValue::Class(LoxClass): the class is cells[c], which never changes once
\* built, so every clone of it is that entry; s is its name
ClassV(c, name) == [t |-> "Class", n |-> c, s |-> name]
\* LoxValue::Instance(Rc<RefCell<LoxInstance>>): the instance is cells[i]; s is
\* the name of its class
InstanceV(i, name) == [t |-> "Instance", n |-> i, s |-> name]

\* Option::None
None == [k |-> "None"]

\* Result<LoxValue, String> of the Environment methods
Ok(v) == [ok |-> TRUE, v |-> v, msg |-> ""]
Err(msg) == [ok |-> FALSE, v |-> NilV, msg |-> msg]

\* HashMap::new() and HashMap::insert
EmptyMap == [x \in {} |-> NilV]
MapPut(f, key, val) == [x \in (DOMAIN f) \cup {key} |-> IF x = key THEN val ELSE f[x]]

(***************************************************************************)
(* Environment (environment.rs).  `self` is heap cell H[id]; enclosing = 0 *)
(* is Option::None.                                                        *)
(***************************************************************************)
Environment_new == [values |-> EmptyMap, enclosing |-> 0]

Environment_new_enclosed(enclosing) == [values |-> EmptyMap, enclosing |-> enclosing]

\* Rc::new(RefCell::new(env)): the new cell is the last one of the heap
Alloc(H, env) == Append(H, env)

\* format!("Undefined variable '{}'.", name)
Undefined(name) == "Undefined variable '" \o name \o "'."

Environment_define(H, id, name, value) ==
  [H EXCEPT ![id].values = MapPut(@, name, value)]

\* Variant: a get that asks the enclosing frame before its own values.
RECURSIVE Environment_get_outer_first(_, _, _)
Environment_get_outer_first(H, id, name) ==
  IF H[id].enclosing # 0 /\ Environment_get_outer_first(H, H[id].enclosing, name).ok
  THEN Environment_get_outer_first(H, H[id].enclosing, name)
  ELSE IF name \in DOMAIN H[id].values
       THEN Ok(H[id].values[name])
       ELSE Err(Undefined(name))

RECURSIVE Environment_get(_, _, _)
Environment_get(H, id, name) ==
  IF name \in DOMAIN H[id].values
  THEN Ok(H[id].values[name])
  ELSE IF H[id].enclosing # 0 /\ Environment_get(H, H[id].enclosing, name).ok
       THEN Environment_get(H, H[id].enclosing, name)
       ELSE Err(Undefined(name))

\* ancestor() walks over CLONES of the frames (self.clone(), then
\* enclosing.borrow().clone()) and returns the last clone wrapped in a new
\* Rc: the result is a frame value, owned by no cell of the heap.
RECURSIVE Environment_ancestor_from(_, _, _)
Environment_ancestor_from(H, env, distance) ==
  IF distance = 0
  THEN env
  ELSE IF env.enclosing # 0
       THEN Environment_ancestor_from(H, H[env.enclosing], distance - 1)
       ELSE None

Environment_ancestor(H, id, distance) == Environment_ancestor_from(H, H[id], distance)

Environment_get_at(H, id, distance, name) ==
  LET enclosing == Environment_ancestor(H, id, distance) IN
    IF enclosing # None /\ name \in DOMAIN enclosing.values
    THEN Ok(enclosing.values[name])
    ELSE Err(Undefined(name))

\* assign_at() inserts into the cell ancestor() returned.  `written` is that
\* cell after the insert; it is dropped when assign_at returns, and no cell
\* of the heap is written.
Environment_assign_at(H, id, distance, name, value) ==
  LET enclosing == Environment_ancestor(H, id, distance) IN
    IF enclosing # None /\ name \in DOMAIN enclosing.values
    THEN [ok |-> TRUE, msg |-> "", heap |-> H,
          written |-> [enclosing EXCEPT !.values = MapPut(@, name, value)]]
    ELSE [ok |-> FALSE, msg |-> Undefined(name), heap |-> H, written |-> None]

\* Variant: an assign that inserts into the current frame whether or not the
\* chain binds the name (what define() does).
Environment_assign_defines(H, id, name, value) ==
  [ok |-> TRUE, msg |-> "", heap |-> Environment_define(H, id, name, value)]

RECURSIVE Environment_assign(_, _, _, _)
Environment_assign(H, id, name, value) ==
  IF name \in DOMAIN H[id].values
  THEN [ok |-> TRUE, msg |-> "", heap |-> [H EXCEPT ![id].values = MapPut(@, name, value)]]
  ELSE IF H[id].enclosing # 0 /\ Environment_assign(H, H[id].enclosing, name, value).ok
       THEN Environment_assign(H, H[id].enclosing, name, value)
       ELSE [ok |-> FALSE, msg |-> Undefined(name), heap |-> H]

\* The cell `distance` hops up the enclosing chain of cell id (0 if none).
RECURSIVE AncestorId(_, _, _)
AncestorId(H, id, distance) ==
  IF distance = 0 THEN id
  ELSE IF H[id].enclosing = 0 THEN 0
       ELSE AncestorId(H, H[id].enclosing, distance - 1)

Binds(H, id, name) == id # 0 /\ name \in DOMAIN H[id].values

(***************************************************************************)
(* Tokens and the tree (lexer.rs 97-119, ast.rs).  A node is a record      *)
(* tagged with its enum variant in field k.  TLA+ equality of records is   *)
(* the derived structural PartialEq/Eq of Expr; the literal field of a     *)
(* Token is Nil for every token kept in a tree node and is left out.       *)
(***************************************************************************)
Token(token_type, token, line) == [token_type |-> token_type, token |-> token, line |-> line]

Ident(name, line) == Token("Identifier", name, line)

AssignExpr(name, value) == [k |-> "Assign", name |-> name, value |-> value]
BinaryExpr(left, operator, right) ==
  [k |-> "Binary", left |-> left, operator |-> operator, right |-> right]
CallExpr(callee, paren, arguments) ==
  [k |-> "Call", callee |-> callee, paren |-> paren, arguments |-> arguments]
GroupingExpr(expression) == [k |-> "Grouping", expression |-> expression]
LiteralExpr(token_type, literal) == [k |-> "Literal", token_type |-> token_type, literal |-> literal]
UnaryExpr(operator, right) == [k |-> "Unary", operator |-> operator, right |-> right]
VariableExpr(name) == [k |-> "Variable", name |-> name]
LogicalExpr(left, operator, right) ==
  [k |-> "Logical", left |-> left, operator |-> operator, right |-> right]
GetExpr(object, name) == [k |-> "Get", object |-> object, name |-> name]
SetExpr(object, name, value) == [k |-> "Set", object |-> object, name |-> name, value |-> value]
ThisExpr(keyword) == [k |-> "This", keyword |-> keyword]

ExprStmt(expression) == [k |-> "Expression", expression |-> expression]
PrintStmt(expression) == [k |-> "Print", expression |-> expression]
VarStmt(name, initializer) == [k |-> "Var", name |-> name, initializer |-> initializer]
RetStmt(keyword, value) == [k |-> "Return", keyword |-> keyword, value |-> value]
BlockStmt(statements) == [k |-> "Block", statements |-> statements]
FunStmt(name, params, body) == [k |-> "Fun", name |-> name, params |-> params, body |-> body]
IfStmt(condition, then_branch, else_branch) ==
  [k |-> "If", condition |-> condition, then_branch |-> then_branch, else_branch |-> else_branch]
WhileStmt(condition, body) == [k |-> "While", condition |-> condition, body |-> body]
\* the superclass field is read nowhere
ClassStmt(name, methods) == [k |-> "Class", name |-> name, methods |-> methods]

(***************************************************************************)
(* Callable cells (stl.rs).  cells[c] is the Box<dyn LoxCallable> behind   *)
(* one Rc<RefCell<..>>.                                                    *)
(***************************************************************************)
ClockCallable == [kind |-> "Clock", declaration |-> None, closure |-> 0, is_initializer |-> FALSE]

LoxFunction_new(declaration, closure, is_initializer) ==
  [kind |-> "LoxFunction", declaration |-> declaration, closure |-> closure,
   is_initializer |-> is_initializer]

LoxFunction_arity(f) == IF f.kind = "Clock" THEN 0 ELSE Len(f.declaration.params)

\* bind: a frame enclosed by the closure that defines "this"; heap is the heap
\* with the new frame, function the bound LoxFunction
LoxFunction_bind(H, f, instance) ==
  [heap |-> Alloc(H, [Environment_new_enclosed(f.closure)
                        EXCEPT !.values = MapPut(@, "this", instance)]),
   function |-> LoxFunction_new(f.declaration, Len(H) + 1, f.is_initializer)]

(***************************************************************************)
(* Classes and instances (oop.rs).  A LoxClass and the LoxInstance behind  *)
(* an Rc<RefCell<..>> are entries of cells as well.                        *)
(***************************************************************************)
LoxClass_new(name, methods) == [kind |-> "Class", name |-> name, methods |-> methods]

LoxInstance_new(class) == [kind |-> "Instance", class |-> class, properties |-> EmptyMap]

LoxClass_arity(class) ==
  IF "init" \in DOMAIN class.methods THEN LoxFunction_arity(class.methods["init"]) ELSE 0

(***************************************************************************)
(* Interpreter (interpreter.rs).  An evaluator state st is the Interpreter *)
(* struct (environment, locals; globals is cell 1) with the memory it      *)
(* points into (heap, cells), the RefCells that are mutably borrowed, the  *)
(* text written to stdout, the record of execute_block calls, the loop     *)
(* iterations left, and the Result of the visit that just returned.        *)
(***************************************************************************)
Globals == 1

ROk(v) == [k |-> "Ok", v |-> v, final_token |-> Token("", "", 0), message |-> ""]

\* InterpreterError::new: error_type FatalError
InterpreterError_new(final_token, message) ==
  [k |-> "FatalError", v |-> NilV, final_token |-> final_token, message |-> message]

\* InterpreterError::new_with_type(.., ReturnValue(value))
ReturnValue(final_token, value) ==
  [k |-> "ReturnValue", v |-> value, final_token |-> final_token, message |-> "Return value"]

\* a Rust panic: the stack unwinds and the process aborts
Panic(message) == [k |-> "Panic", v |-> NilV, final_token |-> Token("", "", 0), message |-> message]

\* the loop bound of the model was reached
OutOfFuel == [k |-> "OutOfFuel", v |-> NilV, final_token |-> Token("", "", 0), message |-> ""]

\* the `?` operator and the Err arms give the error back; a panic unwinds the same way
Failed(st) == st.res.k # "Ok"

With(st, r) == [st EXCEPT !.res = r]

is_truthy(value) ==
  CASE value.t = "Nil" -> FALSE
    [] value.t = "Boolean" -> value.n = 1
    [] OTHER -> TRUE

is_equal(left, right) ==
  CASE left.t = "Nil" /\ right.t = "Nil" -> TRUE
    [] left.t = "Number" /\ right.t = "Number" -> left.n = right.n
    [] left.t = "String" /\ right.t = "String" -> left.s = right.s
    [] left.t = "Boolean" /\ right.t = "Boolean" -> left.n = right.n
    [] OTHER -> FALSE

\* impl fmt::Display for LoxValue (lexer.rs 31-43)
Display(value) ==
  CASE value.t = "Number" -> ToString(value.n)
    [] value.t = "String" -> value.s
    [] value.t = "Boolean" -> IF value.n = 1 THEN "true" ELSE "false"
    [] value.t = "Callable" -> "<callable>"
    [] value.t = "Class" -> value.s
    [] value.t = "Instance" -> value.s \o " instance"
    [] OTHER -> "nil"

\* one read or write of a variable: the method of Environment called, the
\* frame it was called on and its distance argument (0 for get and assign)
Access(expr, method, frame, distance) ==
  [expr |-> expr, method |-> method, frame |-> frame, distance |-> distance]

\* The access is logged with what it meets in the memory of st: whether
\* the frame `distance` hops up from `frame` binds the name (bound), and
\* whether the Environment method finds the name (found).
Accessed(st, access) ==
  LET name == IF access.expr.k = "This" THEN access.expr.keyword.token
              ELSE access.expr.name.token
      at == [bound |-> Binds(st.heap, AncestorId(st.heap, access.frame, access.distance), name),
             found |-> IF access.method \in {"get_at", "assign_at"}
                       THEN Environment_get_at(st.heap, access.frame, access.distance, name).ok
                       ELSE Environment_get(st.heap, access.frame, name).ok]
  IN [st EXCEPT !.accesses = Append(@, access @@ at)]

\* Variant of look_up_variable with dynamic scope: every name is searched
\* along the chain of the current environment.
look_up_variable_dynamic(st, name, expr) ==
  LET found(s1, value) ==
        IF value.ok THEN With(s1, ROk(value.v))
        ELSE With(s1, InterpreterError_new(name, value.msg))
  IN found(Accessed(st, Access(expr, "get", st.environment, 0)),
           Environment_get(st.heap, st.environment, name.token))

look_up_variable(st, name, expr) ==
  LET found(s1, value) ==
        IF value.ok THEN With(s1, ROk(value.v))
        ELSE With(s1, InterpreterError_new(name, value.msg))
  IN IF expr \in DOMAIN st.locals
     THEN found(Accessed(st, Access(expr, "get_at", st.environment, st.locals[expr])),
                Environment_get_at(st.heap, st.environment, st.locals[expr], name.token))
     ELSE found(Accessed(st, Access(expr, "get", Globals, 0)),
                Environment_get(st.heap, Globals, name.token))

not_a_number_error(operator) == InterpreterError_new(operator, "must be a number.")
not_numbers_error(operator) == InterpreterError_new(operator, "must be numbers.")
not_numbers_or_strings_error(operator) ==
  InterpreterError_new(operator, "must be numbers or strings.")

\* the match on expr.operator.token_type of visitBinaryExpr, operands evaluated
Binary_apply(operator, left, right) ==
  LET both == left.t = "Number" /\ right.t = "Number"
      tt == operator.token_type IN
  CASE tt = "Plus" ->
         IF both THEN ROk(NumberV(left.n + right.n))
         ELSE IF left.t = "String" /\ right.t = "String" THEN ROk(StringV(left.s \o right.s))
         ELSE not_numbers_or_strings_error(operator)
    [] tt = "Minus" -> IF both THEN ROk(NumberV(left.n - right.n)) ELSE not_numbers_error(operator)
    [] tt = "Star" -> IF both THEN ROk(NumberV(left.n * right.n)) ELSE not_numbers_error(operator)
    [] tt = "BangEqual" -> ROk(BooleanV(~is_equal(left, right)))
    [] tt = "EqualEqual" -> ROk(BooleanV(is_equal(left, right)))
    [] tt = "Greater" -> IF both THEN ROk(BooleanV(left.n > right.n)) ELSE not_numbers_error(operator)
    [] tt = "GreaterEqual" ->
         IF both THEN ROk(BooleanV(left.n >= right.n)) ELSE not_numbers_error(operator)
    [] tt = "Less" -> IF both THEN ROk(BooleanV(left.n < right.n)) ELSE not_numbers_error(operator)
    [] tt = "LessEqual" ->
         IF both THEN ROk(BooleanV(left.n <= right.n)) ELSE not_numbers_error(operator)
    [] OTHER -> ROk(NilV)

RECURSIVE evaluate(_, _)
RECURSIVE evaluate_arguments(_, _, _, _)
RECURSIVE execute(_, _)
RECURSIVE execute_statements(_, _, _)
RECURSIVE execute_block(_, _, _)
RECURSIVE visitWhileStmt(_, _)
RECURSIVE LoxFunction_call(_, _, _)
RECURSIVE LoxClass_call(_, _, _)

\* In the visitors below the state a call returns is handed to a local
\* operator (then, left, right, ..), which holds what the visitor does next.

visitUnaryExpr(st, expr) ==
  LET then(s1) ==
        IF Failed(s1) THEN s1
        ELSE CASE expr.operator.token_type = "Minus" ->
                    IF s1.res.v.t = "Number" THEN With(s1, ROk(NumberV(0 - s1.res.v.n)))
                    ELSE With(s1, not_a_number_error(expr.operator))
               [] expr.operator.token_type = "Bang" ->
                    With(s1, ROk(BooleanV(~is_truthy(s1.res.v))))
               [] OTHER -> With(s1, ROk(NilV))
  IN then(evaluate(st, expr.right))

\* Variant of visitBinaryExpr that evaluates the right operand first.
visitBinaryExpr_right_first(st, expr) ==
  LET left(s1, s2) ==
        IF Failed(s2) THEN s2
        ELSE With(s2, Binary_apply(expr.operator, s2.res.v, s1.res.v))
      right(s1) == IF Failed(s1) THEN s1 ELSE left(s1, evaluate(s1, expr.left))
  IN right(evaluate(st, expr.right))

visitBinaryExpr(st, expr) ==
  LET right(s1, s2) ==
        IF Failed(s2) THEN s2
        ELSE With(s2, Binary_apply(expr.operator, s1.res.v, s2.res.v))
      left(s1) == IF Failed(s1) THEN s1 ELSE right(s1, evaluate(s1, expr.right))
  IN left(evaluate(st, expr.left))

\* Variant of visitLogicalExpression that always evaluates both operands.
visitLogicalExpression_eager(st, expr) ==
  LET right(s1, s2) ==
        IF Failed(s2) THEN s2
        ELSE IF expr.operator.token_type = "Or"
             THEN IF is_truthy(s1.res.v) THEN With(s2, s1.res) ELSE s2
             ELSE IF ~is_truthy(s1.res.v) THEN With(s2, s1.res) ELSE s2
      left(s1) == IF Failed(s1) THEN s1 ELSE right(s1, evaluate(s1, expr.right))
  IN left(evaluate(st, expr.left))

visitLogicalExpression(st, expr) ==
  LET left(s1) ==
        IF Failed(s1) THEN s1
        ELSE IF expr.operator.token_type = "Or"
             THEN IF is_truthy(s1.res.v) THEN s1 ELSE evaluate(s1, expr.right)
             ELSE IF ~is_truthy(s1.res.v) THEN s1 ELSE evaluate(s1, expr.right)
  IN left(evaluate(st, expr.left))

visitAssignExpression(st, expr) ==
  LET assigned(s1, r) ==
        IF r.ok THEN [s1 EXCEPT !.heap = r.heap]
        ELSE With(s1, InterpreterError_new(expr.name, r.msg))
      then(s1) ==
        IF Failed(s1) THEN s1
        ELSE IF expr \in DOMAIN s1.locals
             THEN assigned(Accessed(s1, Access(expr, "assign_at", s1.environment,
                                               s1.locals[expr])),
                           Environment_assign_at(s1.heap, s1.environment, s1.locals[expr],
                                                 expr.name.token, s1.res.v))
             ELSE assigned(Accessed(s1, Access(expr, "assign", Globals, 0)),
                           Environment_assign(s1.heap, Globals, expr.name.token, s1.res.v))
  IN then(evaluate(st, expr.value))

\* the `for arg in &expr.arguments` loop of visitCallExpr: args collects the values
evaluate_arguments(st, arguments, i, args) ==
  LET then(s1) ==
        IF Failed(s1) THEN [st |-> s1, args |-> args]
        ELSE evaluate_arguments(s1, arguments, i + 1, Append(args, s1.res.v))
  IN IF i > Len(arguments) THEN [st |-> st, args |-> args]
     ELSE then(evaluate(st, arguments[i]))

\* Variant of LoxInstance::get that binds a method to a copy of the instance
\* as it is at the time of the read.
LoxInstance_get_snapshot(st, this, name) ==
  LET instance == st.cells[this.n]
      methods == st.cells[instance.class].methods
      bound(b) == [st EXCEPT !.heap = b.heap,
                             !.cells = Append(Append(@, instance), b.function),
                             !.res = ROk(CallableV(Len(st.cells) + 2))]
  IN IF name.token \in DOMAIN instance.properties
     THEN With(st, ROk(instance.properties[name.token]))
     ELSE IF name.token \in DOMAIN methods
     THEN bound(LoxFunction_bind(st.heap, methods[name.token],
                                 InstanceV(Len(st.cells) + 1, this.s)))
     ELSE With(st, InterpreterError_new(name, "Undefined property '" \o name.token \o "'."))

\* LoxInstance::get of the instance `this` (a LoxValue::Instance): a property,
\* or a method bound to the instance in a new callable cell
LoxInstance_get(st, this, name) ==
  LET instance == st.cells[this.n]
      methods == st.cells[instance.class].methods
      bound(b) == [st EXCEPT !.heap = b.heap,
                             !.cells = Append(@, b.function),
                             !.res = ROk(CallableV(Len(st.cells) + 1))]
  IN IF name.token \in DOMAIN instance.properties
     THEN With(st, ROk(instance.properties[name.token]))
     ELSE IF name.token \in DOMAIN methods
     THEN bound(LoxFunction_bind(st.heap, methods[name.token], this))
     ELSE With(st, InterpreterError_new(name, "Undefined property '" \o name.token \o "'."))

visitGetExpr(st, expr) ==
  LET object(s1) ==
        IF Failed(s1) THEN s1
        ELSE IF s1.res.v.t = "Instance" THEN LoxInstance_get(s1, s1.res.v, expr.name)
        ELSE With(s1, InterpreterError_new(expr.name, "is not an instance."))
  IN object(evaluate(st, expr.object))

\* LoxInstance::set through instance.borrow_mut()
visitSetExpr(st, expr) ==
  LET value(instance, s2) ==
        IF Failed(s2) THEN s2
        ELSE [s2 EXCEPT !.cells[instance.n].properties = MapPut(@, expr.name.token, s2.res.v)]
      object(s1) ==
        IF Failed(s1) THEN s1
        ELSE IF s1.res.v.t = "Instance" THEN value(s1.res.v, evaluate(s1, expr.value))
        ELSE With(s1, InterpreterError_new(expr.name, "is not an instance."))
  IN object(evaluate(st, expr.object))

visitThisExpression(st, expr) == look_up_variable(st, expr.keyword, expr)

\* callable.borrow() panics while the same RefCell is mutably borrowed;
\* callable.borrow_mut() lasts until call() has returned.  as_callable puts a
\* class in a RefCell of its own, which nothing else borrows.
visitCallExpr(st, expr) ==
  LET returned(s3, c) ==
        IF s3.res.k \in {"Panic", "OutOfFuel"} THEN s3
        ELSE [s3 EXCEPT !.borrowed = @ \ {c}]
      call(s2, callee, args) ==
        IF Failed(s2) THEN s2
        ELSE IF callee.t = "Class"
        THEN IF Len(args) # LoxClass_arity(s2.cells[callee.n])
             THEN With(s2, InterpreterError_new(expr.paren,
                         "Expected " \o ToString(LoxClass_arity(s2.cells[callee.n]))
                         \o " arguments but got " \o ToString(Len(args)) \o "."))
             ELSE LoxClass_call(s2, callee.n, args)
        ELSE IF callee.t # "Callable"
        THEN With(s2, InterpreterError_new(expr.paren, Display(callee) \o " is not callable."))
        ELSE IF callee.n \in s2.borrowed
        THEN With(s2, Panic("already mutably borrowed: BorrowError"))
        ELSE IF Len(args) # LoxFunction_arity(s2.cells[callee.n])
        THEN With(s2, InterpreterError_new(expr.paren,
                    "Expected " \o ToString(LoxFunction_arity(s2.cells[callee.n]))
                    \o " arguments but got " \o ToString(Len(args)) \o "."))
        ELSE returned(LoxFunction_call([s2 EXCEPT !.borrowed = @ \cup {callee.n}],
                                       s2.cells[callee.n], args), callee.n)
      arguments(s1, ea) == call(ea.st, s1.res.v, ea.args)
      callee(s1) ==
        IF Failed(s1) THEN s1
        ELSE arguments(s1, evaluate_arguments(s1, expr.arguments, 1, <<>>))
  IN callee(evaluate(st, expr.callee))

evaluate(st, expr) ==
  CASE expr.k = "Assign" -> visitAssignExpression(st, expr)
    [] expr.k = "Binary" -> visitBinaryExpr(st, expr)
    [] expr.k = "Call" -> visitCallExpr(st, expr)
    [] expr.k = "Grouping" -> evaluate(st, expr.expression)
    [] expr.k = "Literal" -> With(st, ROk(expr.literal))
    [] expr.k = "Unary" -> visitUnaryExpr(st, expr)
    [] expr.k = "Variable" -> look_up_variable(st, expr.name, expr)
    [] expr.k = "Logical" -> visitLogicalExpression(st, expr)
    [] expr.k = "Get" -> visitGetExpr(st, expr)
    [] expr.k = "Set" -> visitSetExpr(st, expr)
    [] expr.k = "This" -> visitThisExpression(st, expr)

\* the `for statement in &*block.statements` loop of execute_block
execute_statements(st, statements, i) ==
  LET then(s1) == IF Failed(s1) THEN s1 ELSE execute_statements(s1, statements, i + 1)
  IN IF i > Len(statements) THEN With(st, ROk(NilV))
     ELSE then(execute(st, statements[i]))

\* One entry of st.blocks per execute_block call that has ended: the current
\* environment before the call (prev), the env argument, the cell made for
\* the block (inner), the current environment while the statements ran
\* (installed), how the call ended (exit) and the current environment then.
BlockRecord(prev, env, inner, installed, exit, after, heap_before) ==
  [prev |-> prev, env |-> env, inner |-> inner, installed |-> installed,
   exit |-> exit, after |-> after, heap_before |-> heap_before]

\* execute_block without `self.environment = prev` in the Err arm
execute_block_keeps_frame_on_err(st, block, env) ==
  LET prev == st.environment
      H1 == Alloc(st.heap, Environment_new_enclosed(env))
      s0 == [st EXCEPT !.heap = H1, !.environment = Len(H1)]
      leave(s1, after) ==
        [s1 EXCEPT !.environment = after,
                   !.blocks = Append(@, BlockRecord(prev, env, Len(H1), s0.environment,
                                                    s1.res.k, after, Len(st.heap)))]
      ended(s1) == leave(s1, IF s1.res.k = "Ok" THEN prev ELSE s1.environment)
  IN ended(execute_statements(s0, block.statements, 1))

\* Variant: an execute_block that runs the statements in env itself, without
\* a frame enclosed in it.
execute_block_in_env(st, block, env) ==
  LET prev == st.environment
      s0 == [st EXCEPT !.environment = env]
      leave(s1, after) ==
        [s1 EXCEPT !.environment = after,
                   !.blocks = Append(@, BlockRecord(prev, env, env, s0.environment,
                                                    s1.res.k, after, Len(st.heap)))]
      ended(s1) == leave(s1, IF s1.res.k \in {"Panic", "OutOfFuel"} THEN s1.environment
                             ELSE prev)
  IN ended(execute_statements(s0, block.statements, 1))

\* a panic unwinds past the caller, and a loop cut off by the bound of the
\* model has not returned: the environment is then left as it is
execute_block(st, block, env) ==
  LET prev == st.environment
      H1 == Alloc(st.heap, Environment_new_enclosed(env))
      s0 == [st EXCEPT !.heap = H1, !.environment = Len(H1)]
      leave(s1, after) ==
        [s1 EXCEPT !.environment = after,
                   !.blocks = Append(@, BlockRecord(prev, env, Len(H1), s0.environment,
                                                    s1.res.k, after, Len(st.heap)))]
      ended(s1) == leave(s1, IF s1.res.k \in {"Panic", "OutOfFuel"} THEN s1.environment
                             ELSE prev)
  IN ended(execute_statements(s0, block.statements, 1))

\* the params loop of LoxFunction::call
RECURSIVE define_params(_, _, _, _)
define_params(frame, params, arguments, i) ==
  IF i > Len(params) THEN frame
  ELSE define_params([frame EXCEPT !.values = MapPut(@, params[i].token, arguments[i])],
                     params, arguments, i + 1)

\* the value a call returns when it ends without a value of its own
LoxFunction_result(st, f, value) ==
  LET found(this) ==
        IF this.ok THEN With(st, ROk(this.v))
        ELSE With(st, Panic("Error: 'this' not found in closure."))
  IN IF f.is_initializer THEN found(Environment_get_at(st.heap, f.closure, 0, "this"))
     ELSE With(st, ROk(value))

\* Variant of LoxFunction::call that gives a ReturnValue error back to its
\* caller instead of the value.
LoxFunction_call_passes_return(st, f, arguments) ==
  LET H1 == Alloc(st.heap, define_params(Environment_new_enclosed(f.closure),
                                         f.declaration.params, arguments, 1))
      result(s1) ==
        CASE s1.res.k = "FatalError" -> With(s1, Panic("Error in function call"))
          [] s1.res.k = "Ok" -> LoxFunction_result(s1, f, NilV)
          [] OTHER -> s1
  IN IF f.kind = "Clock" THEN With(st, ROk(NumberV(0)))
     ELSE result(execute_block([st EXCEPT !.heap = H1], f.declaration.body, Len(H1)))

\* LoxCallable::call of f: ClockCallable (seconds since the epoch, an input
\* of the run) or LoxFunction
LoxFunction_call(st, f, arguments) ==
  LET H1 == Alloc(st.heap, define_params(Environment_new_enclosed(f.closure),
                                         f.declaration.params, arguments, 1))
      result(s1) ==
        CASE s1.res.k = "ReturnValue" -> LoxFunction_result(s1, f, s1.res.v)
          [] s1.res.k = "FatalError" -> With(s1, Panic("Error in function call"))
          [] s1.res.k = "Ok" -> LoxFunction_result(s1, f, NilV)
          [] OTHER -> s1
  IN IF f.kind = "Clock" THEN With(st, ROk(NumberV(0)))
     ELSE result(execute_block([st EXCEPT !.heap = H1], f.declaration.body, Len(H1)))

\* Variant of LoxClass::call that yields what init returned.
LoxClass_call_yields_init_result(st, c, arguments) ==
  LET class == st.cells[c]
      instance == InstanceV(Len(st.cells) + 1, class.name)
      s0 == [st EXCEPT !.cells = Append(@, LoxInstance_new(c))]
      init(b) == LoxFunction_call([s0 EXCEPT !.heap = b.heap], b.function, arguments)
  IN IF "init" \in DOMAIN class.methods
     THEN init(LoxFunction_bind(st.heap, class.methods["init"], instance))
     ELSE With(s0, ROk(instance))

\* LoxCallable::call of the class cells[c]: a new instance; init, if the class
\* has one, is bound to it and called, and what it returns is dropped
LoxClass_call(st, c, arguments) ==
  LET class == st.cells[c]
      instance == InstanceV(Len(st.cells) + 1, class.name)
      s0 == [st EXCEPT !.cells = Append(@, LoxInstance_new(c))]
      called(s1) == IF s1.res.k \in {"Panic", "OutOfFuel"} THEN s1 ELSE With(s1, ROk(instance))
      init(b) == called(LoxFunction_call([s0 EXCEPT !.heap = b.heap], b.function, arguments))
  IN IF "init" \in DOMAIN class.methods
     THEN init(LoxFunction_bind(st.heap, class.methods["init"], instance))
     ELSE With(s0, ROk(instance))

\* `while is_truthy(evaluate(condition)?) { execute(body)?; }`; st.fuel bounds
\* the iterations of one top-level statement
visitWhileStmt(st, stmt) ==
  LET body(s2) == IF Failed(s2) THEN s2 ELSE visitWhileStmt(s2, stmt)
      condition(s1) ==
        IF Failed(s1) THEN s1
        ELSE IF ~is_truthy(s1.res.v) THEN With(s1, ROk(NilV))
        ELSE IF s1.fuel = 0 THEN With(s1, OutOfFuel)
        ELSE body(execute([s1 EXCEPT !.fuel = @ - 1], stmt.body))
  IN condition(evaluate(st, stmt.condition))

visitIfStmt(st, stmt) ==
  LET condition(s1) ==
        IF Failed(s1) THEN s1
        ELSE IF is_truthy(s1.res.v) THEN execute(s1, stmt.then_branch)
        ELSE IF stmt.else_branch # None THEN execute(s1, stmt.else_branch)
        ELSE With(s1, ROk(NilV))
  IN condition(evaluate(st, stmt.condition))

visitBlockStmt(st, stmt) == execute_block(st, stmt, st.environment)

visitExpressionStmt(st, stmt) ==
  LET then(s1) == IF Failed(s1) THEN s1 ELSE With(s1, ROk(NilV))
  IN then(evaluate(st, stmt.expression))

visitPrintStmt(st, stmt) ==
  LET then(s1) ==
        IF Failed(s1) THEN s1
        ELSE [s1 EXCEPT !.out = Append(@, Display(s1.res.v)), !.res = ROk(NilV)]
  IN then(evaluate(st, stmt.expression))

visitReturnStmt(st, stmt) ==
  LET then(s1) == IF Failed(s1) THEN s1 ELSE With(s1, ReturnValue(stmt.keyword, s1.res.v))
  IN IF stmt.value # None THEN then(evaluate(st, stmt.value))
     ELSE With(st, ReturnValue(stmt.keyword, NilV))

visitVarStmt(st, stmt) ==
  LET then(s1) ==
        IF Failed(s1) THEN s1
        ELSE [s1 EXCEPT !.heap = Environment_define(@, s1.environment, stmt.name.token,
                                                    s1.res.v),
                        !.res = ROk(NilV)]
  IN IF stmt.initializer # None THEN then(evaluate(st, stmt.initializer))
     ELSE then(With(st, ROk(NilV)))

visitFunStmt(st, stmt) ==
  LET function == LoxFunction_new(stmt, st.environment, FALSE)
      cells1 == Append(st.cells, function) IN
    [st EXCEPT !.cells = cells1,
               !.heap = Environment_define(@, st.environment, stmt.name.token,
                                           CallableV(Len(cells1))),
               !.res = ROk(NilV)]

\* the `for method in &stmt.methods` loop of visitClassStmt
RECURSIVE class_methods(_, _, _, _)
class_methods(stmt_methods, closure, i, methods) ==
  IF i > Len(stmt_methods) THEN methods
  ELSE class_methods(stmt_methods, closure, i + 1,
                     MapPut(methods, stmt_methods[i].name.token,
                            LoxFunction_new(stmt_methods[i], closure, FALSE)))

visitClassStmt(st, stmt) ==
  LET klass == LoxClass_new(stmt.name.token,
                            class_methods(stmt.methods, st.environment, 1, EmptyMap))
      s1 == [st EXCEPT !.heap = Environment_define(@, st.environment, stmt.name.token, NilV),
                       !.cells = Append(@, klass)]
      assigned(r) ==
        IF r.ok THEN [s1 EXCEPT !.heap = r.heap, !.res = ROk(NilV)]
        ELSE With(s1, InterpreterError_new(stmt.name, r.msg))
  IN assigned(Environment_assign(s1.heap, s1.environment, stmt.name.token,
                                 ClassV(Len(s1.cells), stmt.name.token)))

execute(st, stmt) ==
  CASE stmt.k = "Block" -> visitBlockStmt(st, stmt)
    [] stmt.k = "Expression" -> visitExpressionStmt(st, stmt)
    [] stmt.k = "Print" -> visitPrintStmt(st, stmt)
    [] stmt.k = "Return" -> visitReturnStmt(st, stmt)
    [] stmt.k = "Var" -> visitVarStmt(st, stmt)
    [] stmt.k = "Fun" -> visitFunStmt(st, stmt)
    [] stmt.k = "If" -> visitIfStmt(st, stmt)
    [] stmt.k = "While" -> visitWhileStmt(st, stmt)
    [] stmt.k = "Class" -> visitClassStmt(st, stmt)

(***************************************************************************)
(* Resolver (resolver.rs).  A resolver state rs is the Resolver struct     *)
(* (scopes, current_function, current_class) with the side table of the    *)
(* interpreter it fills (locals), the lines it has printed (reported),     *)
(* whether it has panicked (after a panic nothing more is resolved), the   *)
(* calls of Interpreter::resolve it has made, in order (calls), and the    *)
(* blocks, functions and classes it has finished, in order (nodes).        *)
(***************************************************************************)
Resolver_new ==
  [scopes |-> <<>>, locals |-> [x \in {} |-> 0], current_function |-> "None",
   current_class |-> "None", reported |-> <<>>, panicked |-> FALSE, calls |-> <<>>,
   nodes |-> <<>>]

\* the scope stack and the two contexts of a resolver
Context(rs) == [scopes |-> rs.scopes, current_function |-> rs.current_function,
                current_class |-> rs.current_class]

\* the visit of a node of kind k that declares `name` ("" for a block),
\* entered in state `before`, returns in state rs
Exited(rs, k, name, before) ==
  [rs EXCEPT !.nodes = Append(@, [k |-> k, name |-> name, before |-> Context(before),
                                  after |-> Context(rs)])]

\* Variant: a resolve that adds one hop to the depth of an expression that
\* is already in the table.
Interpreter_resolve_bumps(table, expr, depth) ==
  MapPut(table, expr, IF expr \in DOMAIN table THEN depth + 1 ELSE depth)

\* Interpreter::resolve: self.locals.insert(expr, depth)
Interpreter_resolve(table, expr, depth) == MapPut(table, expr, depth)

begin_scope(rs) == [rs EXCEPT !.scopes = Append(@, [x \in {} |-> FALSE])]

\* Variant: an end_scope that leaves the scope on the stack.
end_scope_keeps(rs) == rs

end_scope(rs) == [rs EXCEPT !.scopes = SubSeq(@, 1, Len(@) - 1)]

Resolver_panic(rs, message) ==
  [rs EXCEPT !.reported = Append(@, message), !.panicked = TRUE]

Resolver_declare(rs, name) ==
  IF rs.panicked \/ Len(rs.scopes) = 0 THEN rs
  ELSE IF name.token \in DOMAIN rs.scopes[Len(rs.scopes)]
       THEN Resolver_panic(rs, "Error: Variable already declared in this scope.")
       ELSE [rs EXCEPT !.scopes[Len(rs.scopes)] = MapPut(@, name.token, FALSE)]

Resolver_define(rs, name) ==
  IF rs.panicked \/ Len(rs.scopes) = 0 THEN rs
  ELSE [rs EXCEPT !.scopes[Len(rs.scopes)] = MapPut(@, name.token, TRUE)]

\* the scan of resolve_local from scope i (innermost first) outward
RECURSIVE resolve_local_from(_, _, _, _)
resolve_local_from(rs, expr, name, i) ==
  IF i = 0 THEN rs
  ELSE IF name.token \in DOMAIN rs.scopes[i]
       THEN [rs EXCEPT !.locals = Interpreter_resolve(@, expr, Len(rs.scopes) - i),
                       !.calls = Append(@, [expr |-> expr, depth |-> Len(rs.scopes) - i])]
       ELSE resolve_local_from(rs, expr, name, i - 1)

resolve_local(rs, expr, name) ==
  IF rs.panicked THEN rs ELSE resolve_local_from(rs, expr, name, Len(rs.scopes))

RECURSIVE resolve_stmt(_, _)
RECURSIVE resolve_expr(_, _)
RECURSIVE Resolver_resolve(_, _, _)
RECURSIVE resolve_exprs(_, _, _)

\* the loop over function.params of resolve_function
RECURSIVE declare_params(_, _, _)
declare_params(rs, params, i) ==
  IF i > Len(params) THEN rs
  ELSE declare_params(Resolver_define(Resolver_declare(rs, params[i]), params[i]), params, i + 1)

\* Variant: a resolve_function that does not put current_function back.
resolve_function_keeps_type(rs, function, function_type) ==
  IF rs.panicked THEN rs
  ELSE LET r1 == begin_scope([rs EXCEPT !.current_function = function_type])
           body(r3) == IF r3.panicked THEN r3
                       ELSE Exited(end_scope(r3), "resolve_function", function.name.token, rs)
       IN body(resolve_stmt(declare_params(r1, function.params, 1),
                            BlockStmt(function.body.statements)))

resolve_function(rs, function, function_type) ==
  IF rs.panicked THEN rs
  ELSE LET enclosing_function == rs.current_function
           r1 == begin_scope([rs EXCEPT !.current_function = function_type])
           body(r3) == IF r3.panicked THEN r3
                       ELSE Exited([end_scope(r3) EXCEPT
                                      !.current_function = enclosing_function],
                                   "resolve_function", function.name.token, rs)
       IN body(resolve_stmt(declare_params(r1, function.params, 1),
                            BlockStmt(function.body.statements)))

Resolver_visitVariableExpression(rs, expr) ==
  LET n == Len(rs.scopes)
      r1 == IF n > 0 /\ expr.name.token \in DOMAIN rs.scopes[n] /\ ~rs.scopes[n][expr.name.token]
            THEN [rs EXCEPT !.reported =
                    Append(@, "Can't read local variable in its own initializer.")]
            ELSE rs
  IN resolve_local(r1, expr, expr.name)

Resolver_visitAssignExpression(rs, expr) ==
  resolve_local(resolve_expr(rs, expr.value), expr, expr.name)

Resolver_visitThisExpression(rs, expr) ==
  IF rs.current_class = "None"
  THEN Resolver_panic(rs, "Error: Can't use 'this' outside of a class.")
  ELSE resolve_local(rs, expr, expr.keyword)

\* the loop over expr.arguments of visitCallExpr
resolve_exprs(rs, exprs, i) ==
  IF i > Len(exprs) THEN rs ELSE resolve_exprs(resolve_expr(rs, exprs[i]), exprs, i + 1)

resolve_expr(rs, expr) ==
  IF rs.panicked THEN rs
  ELSE CASE expr.k = "Assign" -> Resolver_visitAssignExpression(rs, expr)
         [] expr.k = "Binary" -> resolve_expr(resolve_expr(rs, expr.left), expr.right)
         [] expr.k = "Call" -> resolve_exprs(resolve_expr(rs, expr.callee), expr.arguments, 1)
         [] expr.k = "Grouping" -> resolve_expr(rs, expr.expression)
         [] expr.k = "Literal" -> rs
         [] expr.k = "Unary" -> resolve_expr(rs, expr.right)
         [] expr.k = "Variable" -> Resolver_visitVariableExpression(rs, expr)
         [] expr.k = "Logical" -> resolve_expr(resolve_expr(rs, expr.left), expr.right)
         [] expr.k = "Get" -> resolve_expr(rs, expr.object)
         [] expr.k = "Set" -> resolve_expr(resolve_expr(rs, expr.value), expr.object)
         [] expr.k = "This" -> Resolver_visitThisExpression(rs, expr)

Resolver_visitBlockStmt(rs, stmt) ==
  LET then(r1) == IF r1.panicked THEN r1 ELSE Exited(end_scope(r1), "Block", "", rs)
  IN then(Resolver_resolve(begin_scope(rs), stmt.statements, 1))

Resolver_visitIfStmt(rs, stmt) ==
  LET then(r1) == IF stmt.else_branch # None THEN resolve_stmt(r1, stmt.else_branch) ELSE r1
  IN then(resolve_stmt(resolve_expr(rs, stmt.condition), stmt.then_branch))

Resolver_visitReturnStmt(rs, stmt) ==
  IF rs.current_function = "None"
  THEN Resolver_panic(rs, "Error: Can't return from top-level code.")
  ELSE IF stmt.value # None
       THEN IF rs.current_function = "Initializer"
            THEN Resolver_panic(rs, "Error: Can't return a value from an initializer.")
            ELSE resolve_expr(rs, stmt.value)
       ELSE rs

Resolver_visitVarStmt(rs, stmt) ==
  LET declared(r1) == IF stmt.initializer # None THEN resolve_expr(r1, stmt.initializer) ELSE r1
  IN Resolver_define(declared(Resolver_declare(rs, stmt.name)), stmt.name)

Resolver_visitFunStmt(rs, stmt) ==
  LET then(r1) == IF r1.panicked THEN r1 ELSE Exited(r1, "Fun", stmt.name.token, rs)
  IN then(resolve_function(Resolver_define(Resolver_declare(rs, stmt.name), stmt.name),
                           stmt, "Function"))

\* the `for method in &stmt.methods` loop of visitClassStmt
RECURSIVE resolve_methods(_, _, _)
resolve_methods(rs, methods, i) ==
  IF i > Len(methods) THEN rs
  ELSE resolve_methods(resolve_function(rs, methods[i],
                                        IF methods[i].name.token = "init" THEN "Initializer"
                                        ELSE "Method"),
                       methods, i + 1)

Resolver_visitClassStmt(rs, stmt) ==
  LET enclosing_class == rs.current_class
      r1 == Resolver_define(Resolver_declare([rs EXCEPT !.current_class = "Class"], stmt.name),
                            stmt.name)
      this(r2) == [r2 EXCEPT !.scopes[Len(r2.scopes)] = MapPut(@, "this", TRUE)]
      methods(r3) == IF r3.panicked THEN r3
                     ELSE Exited([end_scope(r3) EXCEPT !.current_class = enclosing_class],
                                 "Class", stmt.name.token, rs)
  IN IF r1.panicked THEN r1
     ELSE methods(resolve_methods(this(begin_scope(r1)), stmt.methods, 1))

resolve_stmt(rs, stmt) ==
  IF rs.panicked THEN rs
  ELSE CASE stmt.k = "Block" -> Resolver_visitBlockStmt(rs, stmt)
         [] stmt.k = "Expression" -> resolve_expr(rs, stmt.expression)
         [] stmt.k = "Print" -> resolve_expr(rs, stmt.expression)
         [] stmt.k = "Return" -> Resolver_visitReturnStmt(rs, stmt)
         [] stmt.k = "Var" -> Resolver_visitVarStmt(rs, stmt)
         [] stmt.k = "Fun" -> Resolver_visitFunStmt(rs, stmt)
         [] stmt.k = "If" -> Resolver_visitIfStmt(rs, stmt)
         [] stmt.k = "While" -> resolve_stmt(resolve_expr(rs, stmt.condition), stmt.body)
         [] stmt.k = "Class" -> Resolver_visitClassStmt(rs, stmt)

\* Resolver::resolve: `for statement in statements`
Resolver_resolve(rs, statements, i) ==
  IF i > Len(statements) \/ rs.panicked THEN rs
  ELSE Resolver_resolve(resolve_stmt(rs, statements[i]), statements, i + 1)

(***************************************************************************)
(* Parser::for_statement (parser.rs 137-152): the tree built from the      *)
(* parsed clauses; an absent clause is None.                               *)
(***************************************************************************)
for_statement(initializer, condition, increment, body) ==
  LET body1 == IF increment # None THEN BlockStmt(<<body, ExprStmt(increment)>>) ELSE body
      condition1 == IF condition # None THEN condition ELSE LiteralExpr("Nil", NilV)
      body2 == WhileStmt(condition1, body1)
  IN IF initializer = None THEN body2 ELSE BlockStmt(<<initializer, body2>>)

(***************************************************************************)
(* Parser (parser.rs).  A parser state ps is the Parser struct (tokens,    *)
(* current, counted from 0 as in the source) with the diagnostics written  *)
(* to stderr through error() and, for every "Invalid assignment target."   *)
(* report, where the `=` was and where the cursor stood when assignment()  *)
(* returned.  It also holds the locals of Parser::parse (statements,       *)
(* had_error) and what parse returned.  A parse function gives back        *)
(* [ps, ok, node]: the Parser after the call and the Result, Ok(node) or   *)
(* Err(ParserError).                                                       *)
(***************************************************************************)
Parser_new(tokens) ==
  [tokens |-> tokens, current |-> 0, reported |-> <<>>, targets |-> <<>>,
   statements |-> <<>>, had_error |-> FALSE, result |-> "none", underflow |-> FALSE]

POk(ps, node) == [ps |-> ps, ok |-> TRUE, node |-> node]
PErr(ps) == [ps |-> ps, ok |-> FALSE, node |-> None]

\* the `?` operator: an Err is given back, an Ok goes on
Try(r, F(_)) == IF r.ok THEN F(r) ELSE r

\* the literal the lexer stored in a Number or String token
Token_literal(token) ==
  CASE token.token_type = "Number" -> NumberV(IF token.token = "1" THEN 1 ELSE 2)
    [] token.token_type = "String" -> StringV(token.token)
    [] OTHER -> NilV

Parser_peek(ps) == ps.tokens[ps.current + 1]

Parser_previous(ps) == ps.tokens[ps.current]

Parser_is_at_end(ps) == Parser_peek(ps).token_type = "Eof"

Parser_check(ps, token_type) ==
  IF Parser_is_at_end(ps) THEN FALSE ELSE Parser_peek(ps).token_type = token_type

\* advance: the Parser afterwards; the token it returns is Parser_previous of it.
\* advance ends with self.previous(), which reads tokens[current - 1]:
\* underflow records that it did so with current = 0.
Parser_advance(ps) ==
  IF ~Parser_is_at_end(ps) THEN [ps EXCEPT !.current = @ + 1]
  ELSE [ps EXCEPT !.underflow = @ \/ ps.current = 0]

\* match_tokens: ok is the bool returned, ps the Parser afterwards
Parser_match_tokens(ps, types) ==
  IF \E i \in 1 .. Len(types) : Parser_check(ps, types[i])
  THEN [ok |-> TRUE, ps |-> Parser_advance(ps)]
  ELSE [ok |-> FALSE, ps |-> ps]

\* error: error_at_token writes the diagnostic; the ParserError holds nothing
Parser_error(ps, token, message) ==
  [ps EXCEPT !.reported = Append(@, [token |-> token, message |-> message])]

Parser_consume(ps, token_type, message) ==
  IF Parser_check(ps, token_type)
  THEN POk(Parser_advance(ps), Parser_previous(Parser_advance(ps)))
  ELSE PErr(Parser_error(ps, Parser_peek(ps), message))

RECURSIVE Parser_synchronize_loop(_)
Parser_synchronize_loop(ps) ==
  IF Parser_is_at_end(ps) THEN ps
  ELSE IF Parser_previous(ps).token_type = "Semicolon" THEN ps
  ELSE IF Parser_peek(ps).token_type \in
            {"Class", "Fun", "Var", "For", "If", "While", "Print", "Return"} THEN ps
  ELSE Parser_synchronize_loop(Parser_advance(ps))

\* Variant: a synchronize that returns at once when the cursor already
\* stands before a keyword.
Parser_synchronize_stays(ps) ==
  IF Parser_peek(ps).token_type \in
       {"Class", "Fun", "Var", "For", "If", "While", "Print", "Return"}
  THEN ps
  ELSE Parser_synchronize_loop(Parser_advance(ps))

\* Variant: a synchronize that skips the one token of the error and stops.
Parser_synchronize_once(ps) == Parser_advance(ps)

Parser_synchronize(ps) == Parser_synchronize_loop(Parser_advance(ps))

RECURSIVE Parser_assignment(_), Parser_level(_, _), Parser_level_loop(_, _, _),
          Parser_unary(_), Parser_call_loop(_, _), Parser_arguments(_, _),
          Parser_primary(_), Parser_declaration(_), Parser_statement(_),
          Parser_block(_, _), Parser_parameters(_, _)

Parser_expression(ps) == Parser_assignment(ps)

\* or, and, equality, comparison, term, factor: the tokens each one matches
LevelTokens ==
  << <<"Or">>, <<"And">>, <<"BangEqual", "EqualEqual">>,
     <<"Greater", "GreaterEqual", "Less", "LessEqual">>, <<"Minus", "Plus">>,
     <<"Slash", "Star">> >>

\* the node each one builds: or and and a Logical, the others a Binary
Level_node(level, expr, operator, right) ==
  IF level <= 2 THEN LogicalExpr(expr, operator, right) ELSE BinaryExpr(expr, operator, right)

\* the `while self.match_tokens(..)` loop of the function of this level
Parser_level_loop(ps, expr, level) ==
  IF Parser_match_tokens(ps, LevelTokens[level]).ok
  THEN Try(Parser_level(Parser_advance(ps), level + 1), LAMBDA right :
         Parser_level_loop(right.ps,
                           Level_node(level, expr, Parser_previous(Parser_advance(ps)), right.node),
                           level))
  ELSE POk(ps, expr)

\* or (1), and (2), equality (3), comparison (4), term (5), factor (6); each
\* parses its operands with the next one, factor with unary
Parser_level(ps, level) ==
  IF level > Len(LevelTokens) THEN Parser_unary(ps)
  ELSE Try(Parser_level(ps, level + 1), LAMBDA expr :
         Parser_level_loop(expr.ps, expr.node, level))

\* assignment: self.or() is level 1.  Once `=` is matched the cursor is
\* behind it, at expr.ps.current + 1, and the `=` is token expr.ps.current.
Parser_assignment(ps) ==
  Try(Parser_level(ps, 1), LAMBDA expr :
    IF Parser_match_tokens(expr.ps, <<"Equal">>).ok
    THEN Try(Parser_assignment(Parser_advance(expr.ps)), LAMBDA value :
           IF expr.node.k = "Variable"
           THEN POk(value.ps, AssignExpr(expr.node.name, value.node))
           ELSE POk([Parser_error(value.ps, Parser_previous(Parser_advance(expr.ps)),
                                  "Invalid assignment target.")
                       EXCEPT !.targets = Append(@, [equals |-> expr.ps.current,
                                                     current |-> value.ps.current])],
                    expr.node))
    ELSE POk(expr.ps, expr.node))

Parser_unary(ps) ==
  IF Parser_match_tokens(ps, <<"Bang", "Minus">>).ok
  THEN Try(Parser_unary(Parser_advance(ps)), LAMBDA right :
         POk(right.ps, UnaryExpr(Parser_previous(Parser_advance(ps)), right.node)))
  ELSE Try(Parser_primary(ps), LAMBDA expr : Parser_call_loop(expr.ps, expr.node))

\* the argument loop of finish_call
Parser_arguments(ps, arguments) ==
  IF Len(arguments) >= 255
  THEN PErr(Parser_error(ps, Parser_peek(ps), "Cannot have more than 255 arguments."))
  ELSE Try(Parser_expression(ps), LAMBDA argument :
         IF Parser_match_tokens(argument.ps, <<"Comma">>).ok
         THEN Parser_arguments(Parser_advance(argument.ps), Append(arguments, argument.node))
         ELSE POk(argument.ps, Append(arguments, argument.node)))

Parser_finish_call(ps, callee) ==
  Try(IF ~Parser_check(ps, "RightParen") THEN Parser_arguments(ps, <<>>) ELSE POk(ps, <<>>),
      LAMBDA arguments :
        Try(Parser_consume(arguments.ps, "RightParen", "Expect ')' after arguments."),
            LAMBDA paren : POk(paren.ps, CallExpr(callee, paren.node, arguments.node))))

\* the loop of call
Parser_call_loop(ps, expr) ==
  IF Parser_match_tokens(ps, <<"LeftParen">>).ok
  THEN Try(Parser_finish_call(Parser_advance(ps), expr), LAMBDA call :
         Parser_call_loop(call.ps, call.node))
  ELSE POk(ps, expr)

Parser_primary(ps) ==
  CASE Parser_check(ps, "False") -> POk(Parser_advance(ps), LiteralExpr("False", BooleanV(FALSE)))
    [] Parser_check(ps, "True") -> POk(Parser_advance(ps), LiteralExpr("True", BooleanV(TRUE)))
    [] Parser_check(ps, "Nil") -> POk(Parser_advance(ps), LiteralExpr("Nil", NilV))
    [] Parser_check(ps, "Number") ->
         POk(Parser_advance(ps), LiteralExpr("Number", Token_literal(Parser_peek(ps))))
    [] Parser_check(ps, "String") ->
         POk(Parser_advance(ps), LiteralExpr("String", Token_literal(Parser_peek(ps))))
    [] Parser_check(ps, "Identifier") -> POk(Parser_advance(ps), VariableExpr(Parser_peek(ps)))
    [] Parser_check(ps, "LeftParen") ->
         Try(Parser_expression(Parser_advance(ps)), LAMBDA expr :
           Try(Parser_consume(expr.ps, "RightParen", "Expect ')' after expression."),
               LAMBDA noop : POk(noop.ps, GroupingExpr(expr.node))))
    [] OTHER -> PErr(Parser_error(ps, Parser_peek(ps), "Expect expression."))

Parser_print_statement(ps) ==
  Try(Parser_expression(ps), LAMBDA value :
    Try(Parser_consume(value.ps, "Semicolon", "Expect ';' after value."), LAMBDA semi :
      POk(semi.ps, PrintStmt(value.node))))

Parser_expression_statement(ps) ==
  Try(Parser_expression(ps), LAMBDA expr :
    Try(Parser_consume(expr.ps, "Semicolon", "Expect ';' after expression."), LAMBDA semi :
      POk(semi.ps, ExprStmt(expr.node))))

Parser_var_declaration(ps) ==
  Try(Parser_consume(ps, "Identifier", "Expect variable name."), LAMBDA name :
    Try(IF Parser_match_tokens(name.ps, <<"Equal">>).ok
        THEN Parser_expression(Parser_advance(name.ps))
        ELSE POk(name.ps, None),
        LAMBDA initializer :
          Try(Parser_consume(initializer.ps, "Semicolon",
                             "Expect ';' after variable declaration."),
              LAMBDA semi : POk(semi.ps, VarStmt(name.node, initializer.node)))))

\* block, with the statements parsed so far: an Err of a declaration ends
\* it without a new report
Parser_block(ps, statements) ==
  IF ~Parser_is_at_end(ps) /\ ~Parser_check(ps, "RightBrace")
  THEN Try(Parser_declaration(ps), LAMBDA stmt :
         Parser_block(stmt.ps, Append(statements, stmt.node)))
  ELSE Try(Parser_consume(ps, "RightBrace", "Expect '}' after block."), LAMBDA brace :
         POk(brace.ps, statements))

Parser_while_statement(ps) ==
  Try(Parser_consume(ps, "LeftParen", "Expect '(' after 'while'."), LAMBDA paren :
    Try(Parser_expression(paren.ps), LAMBDA condition :
      Try(Parser_consume(condition.ps, "RightParen", "Expect ')' after condition."),
          LAMBDA close :
            Try(Parser_statement(close.ps), LAMBDA body :
              POk(body.ps, WhileStmt(condition.node, body.node))))))

Parser_if_statement(ps) ==
  Try(Parser_consume(ps, "LeftParen", "Expect '(' after 'if'."), LAMBDA paren :
    Try(Parser_expression(paren.ps), LAMBDA condition :
      Try(Parser_consume(condition.ps, "RightParen", "Expect ')' after condition."),
          LAMBDA close :
            Try(Parser_statement(close.ps), LAMBDA then_branch :
              Try(IF Parser_match_tokens(then_branch.ps, <<"Else">>).ok
                  THEN Parser_statement(Parser_advance(then_branch.ps))
                  ELSE POk(then_branch.ps, None),
                  LAMBDA else_branch :
                    POk(else_branch.ps,
                        IfStmt(condition.node, then_branch.node, else_branch.node)))))))

\* for_statement: the clauses are parsed, then the tree is built
Parser_for_statement(ps) ==
  Try(Parser_consume(ps, "LeftParen", "Expect '(' after 'for'."), LAMBDA paren :
    Try(CASE Parser_check(paren.ps, "Semicolon") -> POk(Parser_advance(paren.ps), None)
          [] Parser_check(paren.ps, "Var") -> Parser_var_declaration(Parser_advance(paren.ps))
          [] OTHER -> Parser_expression_statement(paren.ps),
        LAMBDA initializer :
          Try(IF ~Parser_check(initializer.ps, "Semicolon")
              THEN Parser_expression(initializer.ps)
              ELSE POk(initializer.ps, None),
              LAMBDA condition :
                Try(Parser_consume(condition.ps, "Semicolon", "Expect ';' after loop condition."),
                    LAMBDA semi :
                      Try(IF ~Parser_check(semi.ps, "RightParen")
                          THEN Parser_expression(semi.ps)
                          ELSE POk(semi.ps, None),
                          LAMBDA increment :
                            Try(Parser_consume(increment.ps, "RightParen",
                                               "Expect ')' after for clauses."),
                                LAMBDA close :
                                  Try(Parser_statement(close.ps), LAMBDA body :
                                    POk(body.ps,
                                        for_statement(initializer.node, condition.node,
                                                      increment.node, body.node)))))))))

Parser_statement(ps) ==
  CASE Parser_check(ps, "For") -> Parser_for_statement(Parser_advance(ps))
    [] Parser_check(ps, "If") -> Parser_if_statement(Parser_advance(ps))
    [] Parser_check(ps, "Print") -> Parser_print_statement(Parser_advance(ps))
    [] Parser_check(ps, "While") -> Parser_while_statement(Parser_advance(ps))
    [] Parser_check(ps, "LeftBrace") ->
         Try(Parser_block(Parser_advance(ps), <<>>), LAMBDA block :
           POk(block.ps, BlockStmt(block.node)))
    [] OTHER -> Parser_expression_statement(ps)

\* the parameter loop of function
Parser_parameters(ps, parameters) ==
  IF Len(parameters) >= 255
  THEN PErr(Parser_error(ps, Parser_peek(ps), "Cannot have more than 255 parameters."))
  ELSE Try(Parser_consume(ps, "Identifier", "Expect parameter name."), LAMBDA parameter :
         IF Parser_match_tokens(parameter.ps, <<"Comma">>).ok
         THEN Parser_parameters(Parser_advance(parameter.ps), Append(parameters, parameter.node))
         ELSE POk(parameter.ps, Append(parameters, parameter.node)))

\* function("function")
Parser_function(ps) ==
  Try(Parser_consume(ps, "Identifier", "Expect function name."), LAMBDA name :
    Try(Parser_consume(name.ps, "LeftParen", "Expect '(' after function name."), LAMBDA paren :
      Try(IF ~Parser_check(paren.ps, "RightParen")
          THEN Parser_parameters(paren.ps, <<>>)
          ELSE POk(paren.ps, <<>>),
          LAMBDA parameters :
            Try(Parser_consume(parameters.ps, "RightParen", "Expect ')' after parameters."),
                LAMBDA close :
                  Try(Parser_consume(close.ps, "LeftBrace", "Expect '{' before function body."),
                      LAMBDA brace :
                        Try(Parser_block(brace.ps, <<>>), LAMBDA body :
                          POk(body.ps,
                              FunStmt(name.node, parameters.node, BlockStmt(body.node)))))))))

Parser_declaration(ps) ==
  CASE Parser_check(ps, "Fun") -> Parser_function(Parser_advance(ps))
    [] Parser_check(ps, "Var") -> Parser_var_declaration(Parser_advance(ps))
    [] OTHER -> Parser_statement(ps)

(***************************************************************************)
(* Source programs, as the trees Parser::parse builds for them.  Every     *)
(* token carries its line: a program is laid out either on one line (as a  *)
(* REPL line is) or with every statement on a line of its own (split).     *)
(***************************************************************************)
Var(name, line) == VariableExpr(Ident(name, line))
Num(n) == LiteralExpr("Number", NumberV(n))
Str(str) == LiteralExpr("String", StringV(str))
Add(left, right, line) == BinaryExpr(left, Token("Plus", "+", line), right)
Sub(left, right, line) == BinaryExpr(left, Token("Minus", "-", line), right)
Lt(left, right, line) == BinaryExpr(left, Token("Less", "<", line), right)
Gt(left, right, line) == BinaryExpr(left, Token("Greater", ">", line), right)
Asg(name, line, value) == AssignExpr(Ident(name, line), value)
Call(callee, arguments, line) == CallExpr(callee, Token("RightParen", ")", line), arguments)
Fun(name, params, body, line) ==
  FunStmt(Ident(name, line), [i \in 1 .. Len(params) |-> Ident(params[i], line)], BlockStmt(body))
Ret(value, line) == RetStmt(Token("Return", "return", line), value)

\* the line of the j-th inner line of a statement that starts on line l
Ln(l, split, j) == IF split THEN l + j ELSE l

PoolNames ==
  {"var_x", "incr_x", "error", "shadow", "block_error", "own_init", "fun_f", "call_f",
   "fun_bad", "call_bad", "fun_r", "call_r", "fun_w", "call_w", "redeclare"}

PoolStmt(name, l, split) ==
  CASE name = "var_x" ->        \* var x = 0;
         VarStmt(Ident("x", l), Num(0))
    [] name = "incr_x" ->       \* x = x + 1;
         ExprStmt(Asg("x", l, Add(Var("x", l), Num(1), l)))
    [] name = "error" ->        \* print 1 + "a";
         PrintStmt(Add(Num(1), Str("a"), l))
    [] name = "shadow" ->       \* { var a = 1; print a; { print a; } }
         BlockStmt(<<VarStmt(Ident("a", Ln(l, split, 1)), Num(1)),
                     PrintStmt(Var("a", Ln(l, split, 2))),
                     BlockStmt(<<PrintStmt(Var("a", Ln(l, split, 3)))>>)>>)
    [] name = "block_error" ->  \* { var b = 1; print b + "s"; print b; }
         BlockStmt(<<VarStmt(Ident("b", Ln(l, split, 1)), Num(1)),
                     PrintStmt(Add(Var("b", Ln(l, split, 2)), Str("s"), Ln(l, split, 2))),
                     PrintStmt(Var("b", Ln(l, split, 3)))>>)
    [] name = "own_init" ->     \* { var a = a; }
         BlockStmt(<<VarStmt(Ident("a", Ln(l, split, 1)), Var("a", Ln(l, split, 1)))>>)
    [] name = "fun_f" ->        \* fun f() { return 1; }
         Fun("f", <<>>, <<Ret(Num(1), Ln(l, split, 1))>>, l)
    [] name = "call_f" ->       \* print f();
         PrintStmt(Call(Var("f", l), <<>>, l))
    [] name = "fun_bad" ->      \* fun bad() { var t = 1; { print t + "s"; } }
         Fun("bad", <<>>,
             <<VarStmt(Ident("t", Ln(l, split, 1)), Num(1)),
               BlockStmt(<<PrintStmt(Add(Var("t", Ln(l, split, 2)), Str("s"),
                                         Ln(l, split, 2)))>>)>>, l)
    [] name = "call_bad" ->     \* bad();
         ExprStmt(Call(Var("bad", l), <<>>, l))
    [] name = "fun_r" ->        \* fun r(n) { if (n > 0) return r(n - 1); return 0; }
         Fun("r", <<"n">>,
             <<IfStmt(Gt(Var("n", Ln(l, split, 1)), Num(0), Ln(l, split, 1)),
                      Ret(Call(Var("r", Ln(l, split, 1)),
                               <<Sub(Var("n", Ln(l, split, 1)), Num(1), Ln(l, split, 1))>>,
                               Ln(l, split, 1)), Ln(l, split, 1)),
                      None),
               Ret(Num(0), Ln(l, split, 2))>>, l)
    [] name = "call_r" ->       \* print r(1);
         PrintStmt(Call(Var("r", l), <<Num(1)>>, l))
    [] name = "fun_w" ->        \* fun w() { var k = 7; while (true) { { return k; } } }
         Fun("w", <<>>,
             <<VarStmt(Ident("k", Ln(l, split, 1)), Num(7)),
               WhileStmt(LiteralExpr("True", BooleanV(TRUE)),
                         BlockStmt(<<BlockStmt(<<Ret(Var("k", Ln(l, split, 2)),
                                                     Ln(l, split, 2))>>)>>))>>, l)
    [] name = "call_w" ->       \* print w();
         PrintStmt(Call(Var("w", l), <<>>, l))
    [] name = "redeclare" ->    \* { var d = 1; var d = 2; }
         BlockStmt(<<VarStmt(Ident("d", Ln(l, split, 1)), Num(1)),
                     VarStmt(Ident("d", Ln(l, split, 2)), Num(2))>>)

\* the first line of the k-th top-level statement
TopLine(k, split) == IF split THEN 10 * k ELSE 1

PoolProgram(names, split) ==
  [k \in 1 .. Len(names) |-> PoolStmt(names[k], TopLine(k, split), split)]

Get(object, name, line) == GetExpr(object, Ident(name, line))
Set(object, name, value, line) == SetExpr(object, Ident(name, line), value)
This(line) == ThisExpr(Token("This", "this", line))
Class(name, methods, line) == ClassStmt(Ident(name, line), methods)
Or(left, right, line) == LogicalExpr(left, Token("Or", "or", line), right)
And(left, right, line) == LogicalExpr(left, Token("And", "and", line), right)
Bool(b) == LiteralExpr(IF b THEN "True" ELSE "False", BooleanV(b))
Nil == LiteralExpr("Nil", NilV)

\* programs with classes
ObjectScenarioNames == {"bound_method", "construct", "init_direct"}

ObjectScenario(name, split) ==
  LET T(k) == TopLine(k, split)
      L(k, j) == Ln(T(k), split, j) IN
  CASE name = "bound_method" ->
         \* class A { get() { return this.x; } }
         \* var a = A(); var b = A(); a.x = 1; b.x = 5; var m = a.get; a.x = 2;
         \* { print m(); } fun f() { return m(); } print f(); b.get = m; print b.get();
         <<Class("A", <<Fun("get", <<>>, <<Ret(Get(This(L(1, 1)), "x", L(1, 1)), L(1, 1))>>,
                            T(1))>>, T(1)),
           VarStmt(Ident("a", T(2)), Call(Var("A", T(2)), <<>>, T(2))),
           VarStmt(Ident("b", T(3)), Call(Var("A", T(3)), <<>>, T(3))),
           ExprStmt(Set(Var("a", T(4)), "x", Num(1), T(4))),
           ExprStmt(Set(Var("b", T(5)), "x", Num(5), T(5))),
           VarStmt(Ident("m", T(6)), Get(Var("a", T(6)), "get", T(6))),
           ExprStmt(Set(Var("a", T(7)), "x", Num(2), T(7))),
           BlockStmt(<<PrintStmt(Call(Var("m", T(8)), <<>>, T(8)))>>),
           Fun("f", <<>>, <<Ret(Call(Var("m", L(9, 1)), <<>>, L(9, 1)), L(9, 1))>>, T(9)),
           PrintStmt(Call(Var("f", T(10)), <<>>, T(10))),
           ExprStmt(Set(Var("b", T(11)), "get", Var("m", T(11)), T(11))),
           PrintStmt(Call(Get(Var("b", T(12)), "get", T(12)), <<>>, T(12)))>>
    [] name = "construct" ->
         \* class P { init(v) { this.v = v; return; } } class Q { init() { this.n = 1; } }
         \* class E { } var p = P(7); var q = Q(); var e = E(); var r = P(8);
         \* print p.v; print q.n; print r.v; print p; print e;
         <<Class("P", <<Fun("init", <<"v">>,
                            <<ExprStmt(Set(This(L(1, 1)), "v", Var("v", L(1, 1)), L(1, 1))),
                              Ret(None, L(1, 2))>>, T(1))>>, T(1)),
           Class("Q", <<Fun("init", <<>>,
                            <<ExprStmt(Set(This(L(2, 1)), "n", Num(1), L(2, 1)))>>, T(2))>>,
                 T(2)),
           Class("E", <<>>, T(3)),
           VarStmt(Ident("p", T(4)), Call(Var("P", T(4)), <<Num(7)>>, T(4))),
           VarStmt(Ident("q", T(5)), Call(Var("Q", T(5)), <<>>, T(5))),
           VarStmt(Ident("e", T(6)), Call(Var("E", T(6)), <<>>, T(6))),
           VarStmt(Ident("r", T(7)), Call(Var("P", T(7)), <<Num(8)>>, T(7))),
           PrintStmt(Get(Var("p", T(8)), "v", T(8))),
           PrintStmt(Get(Var("q", T(9)), "n", T(9))),
           PrintStmt(Get(Var("r", T(10)), "v", T(10))),
           PrintStmt(Var("p", T(11))),
           PrintStmt(Var("e", T(12)))>>
    [] name = "init_direct" ->
         \* class Q { init() { this.n = 1; } } var q = Q(); print q.init();
         <<Class("Q", <<Fun("init", <<>>,
                            <<ExprStmt(Set(This(L(1, 1)), "n", Num(1), L(1, 1)))>>, T(1))>>,
                 T(1)),
           VarStmt(Ident("q", T(2)), Call(Var("Q", T(2)), <<>>, T(2))),
           PrintStmt(Call(Get(Var("q", T(3)), "init", T(3)), <<>>, T(3)))>>

\* programs about control flow and the order of evaluation
ControlScenarioNames == {"early_return", "lexical", "short_circuit", "eval_order"}

ControlScenario(name, split) ==
  LET T(k) == TopLine(k, split)
      L(k, j) == Ln(T(k), split, j) IN
  CASE name = "early_return" ->
         \* fun g(n) { while (true) { if (n > 0) { { return 1; } } return; } print "after"; }
         \* print g(1); print g(0);
         \* fun h() { print g(1) + 1; print "h"; return; print "no"; } print h();
         <<Fun("g", <<"n">>,
               <<WhileStmt(Bool(TRUE),
                           BlockStmt(<<IfStmt(Gt(Var("n", L(1, 1)), Num(0), L(1, 1)),
                                              BlockStmt(<<BlockStmt(<<Ret(Num(1), L(1, 2))>>)>>),
                                              None),
                                       Ret(None, L(1, 3))>>)),
                 PrintStmt(Str("after"))>>, T(1)),
           PrintStmt(Call(Var("g", T(2)), <<Num(1)>>, T(2))),
           PrintStmt(Call(Var("g", T(3)), <<Num(0)>>, T(3))),
           Fun("h", <<>>,
               <<PrintStmt(Add(Call(Var("g", L(4, 1)), <<Num(1)>>, L(4, 1)), Num(1), L(4, 1))),
                 PrintStmt(Str("h")),
                 Ret(None, L(4, 3)),
                 PrintStmt(Str("no"))>>, T(4)),
           PrintStmt(Call(Var("h", T(5)), <<>>, T(5)))>>
    [] name = "lexical" ->
         \* var a = "global"; { fun show() { print a; } show(); var a = "local"; show(); }
         <<VarStmt(Ident("a", T(1)), Str("global")),
           BlockStmt(<<Fun("show", <<>>, <<PrintStmt(Var("a", L(2, 1)))>>, L(2, 1)),
                       ExprStmt(Call(Var("show", L(2, 2)), <<>>, L(2, 2))),
                       VarStmt(Ident("a", L(2, 3)), Str("local")),
                       ExprStmt(Call(Var("show", L(2, 4)), <<>>, L(2, 4)))>>)>>
    [] name = "short_circuit" ->
         \* var x = 0; print true or (x = 1); print nil and (x = 2); print x;
         \* print nil or "s"; print 1 and 2; print 1 or 2; print false and 2;
         <<VarStmt(Ident("x", T(1)), Num(0)),
           PrintStmt(Or(Bool(TRUE), GroupingExpr(Asg("x", T(2), Num(1))), T(2))),
           PrintStmt(And(Nil, GroupingExpr(Asg("x", T(3), Num(2))), T(3))),
           PrintStmt(Var("x", T(4))),
           PrintStmt(Or(Nil, Str("s"), T(5))),
           PrintStmt(And(Num(1), Num(2), T(6))),
           PrintStmt(Or(Num(1), Num(2), T(7))),
           PrintStmt(And(Bool(FALSE), Num(2), T(8)))>>
    [] name = "eval_order" ->
         \* fun p(n) { print n; return n; } print p(1) + p(2); p(3) + p("a");
         \* p(p(4), p(5)); nofn(p(6));
         <<Fun("p", <<"n">>,
               <<PrintStmt(Var("n", L(1, 1))), Ret(Var("n", L(1, 2)), L(1, 2))>>, T(1)),
           PrintStmt(Add(Call(Var("p", T(2)), <<Num(1)>>, T(2)),
                         Call(Var("p", T(2)), <<Num(2)>>, T(2)), T(2))),
           ExprStmt(Add(Call(Var("p", T(3)), <<Num(3)>>, T(3)),
                        Call(Var("p", T(3)), <<Str("a")>>, T(3)), T(3))),
           ExprStmt(Call(Var("p", T(4)),
                         <<Call(Var("p", T(4)), <<Num(4)>>, T(4)),
                           Call(Var("p", T(4)), <<Num(5)>>, T(4))>>, T(4))),
           ExprStmt(Call(Var("nofn", T(5)), <<Call(Var("p", T(5)), <<Num(6)>>, T(5))>>, T(5)))>>

\* programs about calls
CallScenarioNames == {"arity", "hops"}

CallScenario(name, split) ==
  LET T(k) == TopLine(k, split)
      L(k, j) == Ln(T(k), split, j) IN
  CASE name = "arity" ->
         \* fun f(a) { print "body"; } class P { init(v) { print "init"; } } class E { }
         \* fun n(x) { print x; return x; }
         \* f(n(1), n(2)); f(); P(); E(n(3)); "s"(n(4)); E()(); clock(1);
         \* fun r(k) { print k; r(1, 2); } r(0);
         <<Fun("f", <<"a">>, <<PrintStmt(Str("body"))>>, T(1)),
           Class("P", <<Fun("init", <<"v">>, <<PrintStmt(Str("init"))>>, T(2))>>, T(2)),
           Class("E", <<>>, T(3)),
           Fun("n", <<"x">>,
               <<PrintStmt(Var("x", L(4, 1))), Ret(Var("x", L(4, 2)), L(4, 2))>>, T(4)),
           ExprStmt(Call(Var("f", T(5)),
                         <<Call(Var("n", T(5)), <<Num(1)>>, T(5)),
                           Call(Var("n", T(5)), <<Num(2)>>, T(5))>>, T(5))),
           ExprStmt(Call(Var("f", T(6)), <<>>, T(6))),
           ExprStmt(Call(Var("P", T(7)), <<>>, T(7))),
           ExprStmt(Call(Var("E", T(8)), <<Call(Var("n", T(8)), <<Num(3)>>, T(8))>>, T(8))),
           ExprStmt(Call(Str("s"), <<Call(Var("n", T(9)), <<Num(4)>>, T(9))>>, T(9))),
           ExprStmt(Call(Call(Var("E", T(10)), <<>>, T(10)), <<>>, T(10))),
           ExprStmt(Call(Var("clock", T(11)), <<Num(1)>>, T(11))),
           Fun("r", <<"k">>,
               <<PrintStmt(Var("k", L(12, 1))),
                 ExprStmt(Call(Var("r", L(12, 2)), <<Num(1), Num(2)>>, L(12, 2)))>>, T(12)),
           ExprStmt(Call(Var("r", T(13)), <<Num(0)>>, T(13)))>>
    [] name = "hops" ->
         \* class K { m(p) { var u = p; { fun g() { return this; } return g; } } }
         \* { var k = K(); var h = k.m(1); print h(); }
         \* fun outer(q) { { var w = q; fun inner() { w = 2; return w; } return inner; } }
         \* print outer(5)();
         <<Class("K",
                 <<Fun("m", <<"p">>,
                       <<VarStmt(Ident("u", L(1, 1)), Var("p", L(1, 1))),
                         BlockStmt(<<Fun("g", <<>>, <<Ret(This(L(1, 2)), L(1, 2))>>, L(1, 2)),
                                     Ret(Var("g", L(1, 3)), L(1, 3))>>)>>, T(1))>>, T(1)),
           BlockStmt(<<VarStmt(Ident("k", L(2, 1)), Call(Var("K", L(2, 1)), <<>>, L(2, 1))),
                       VarStmt(Ident("h", L(2, 2)),
                               Call(Get(Var("k", L(2, 2)), "m", L(2, 2)), <<Num(1)>>, L(2, 2))),
                       PrintStmt(Call(Var("h", L(2, 3)), <<>>, L(2, 3)))>>),
           Fun("outer", <<"q">>,
               <<BlockStmt(<<VarStmt(Ident("w", L(3, 1)), Var("q", L(3, 1))),
                             Fun("inner", <<>>,
                                 <<ExprStmt(Asg("w", L(3, 3), Num(2))),
                                   Ret(Var("w", L(3, 4)), L(3, 4))>>, L(3, 2)),
                             Ret(Var("inner", L(3, 5)), L(3, 5))>>)>>, T(3)),
           PrintStmt(Call(Call(Var("outer", T(4)), <<Num(5)>>, T(4)), <<>>, T(4)))>>

ScenarioNames ==
  {"counter", "for_sum", "late_assign", "nested_calls", "mutual", "fn_error", "two_errors",
   "block_exits"} \cup ObjectScenarioNames \cup ControlScenarioNames \cup CallScenarioNames

Scenario(name, split) ==
  LET T(k) == TopLine(k, split)
      L(k, j) == Ln(T(k), split, j) IN
  CASE name \in ObjectScenarioNames -> ObjectScenario(name, split)
    [] name \in ControlScenarioNames -> ControlScenario(name, split)
    [] name \in CallScenarioNames -> CallScenario(name, split)
    [] name = "counter" ->
         \* fun makeCounter() { var n = 0; fun c() { n = n + 1; return n; } return c; }
         \* var c = makeCounter(); print c(); print c(); print c();
         <<Fun("makeCounter", <<>>,
               <<VarStmt(Ident("n", L(1, 1)), Num(0)),
                 Fun("c", <<>>,
                     <<ExprStmt(Asg("n", L(1, 3), Add(Var("n", L(1, 3)), Num(1), L(1, 3)))),
                       Ret(Var("n", L(1, 4)), L(1, 4))>>, L(1, 2)),
                 Ret(Var("c", L(1, 5)), L(1, 5))>>, T(1)),
           VarStmt(Ident("c", T(2)), Call(Var("makeCounter", T(2)), <<>>, T(2))),
           PrintStmt(Call(Var("c", T(3)), <<>>, T(3))),
           PrintStmt(Call(Var("c", T(4)), <<>>, T(4))),
           PrintStmt(Call(Var("c", T(5)), <<>>, T(5)))>>
    [] name = "for_sum" ->
         \* var x = 0; for (var i = 0; i < 3; i = i + 1) x = x + i; print x;
         <<VarStmt(Ident("x", T(1)), Num(0)),
           for_statement(VarStmt(Ident("i", T(2)), Num(0)),
                         Lt(Var("i", T(2)), Num(3), T(2)),
                         Asg("i", T(2), Add(Var("i", T(2)), Num(1), T(2))),
                         ExprStmt(Asg("x", L(2, 1), Add(Var("x", L(2, 1)), Var("i", L(2, 1)),
                                                        L(2, 1))))),
           PrintStmt(Var("x", T(3)))>>
    [] name = "late_assign" ->
         \* fun outer() { var n = 0; fun get() { return n; } n = 5; return get(); }
         \* print outer();
         <<Fun("outer", <<>>,
               <<VarStmt(Ident("n", L(1, 1)), Num(0)),
                 Fun("get", <<>>, <<Ret(Var("n", L(1, 2)), L(1, 2))>>, L(1, 2)),
                 ExprStmt(Asg("n", L(1, 3), Num(5))),
                 Ret(Call(Var("get", L(1, 4)), <<>>, L(1, 4)), L(1, 4))>>, T(1)),
           PrintStmt(Call(Var("outer", T(2)), <<>>, T(2)))>>
    [] name = "nested_calls" ->
         \* fun f() { return 1; } fun h() { return f() + 1; } print h();
         <<Fun("f", <<>>, <<Ret(Num(1), L(1, 1))>>, T(1)),
           Fun("h", <<>>,
               <<Ret(Add(Call(Var("f", L(2, 1)), <<>>, L(2, 1)), Num(1), L(2, 1)), L(2, 1))>>,
               T(2)),
           PrintStmt(Call(Var("h", T(3)), <<>>, T(3)))>>
    [] name = "mutual" ->
         \* fun a(n) { if (n > 0) return b(n - 1); return 0; }
         \* fun b(n) { return a(n); } print a(1);
         <<Fun("a", <<"n">>,
               <<IfStmt(Gt(Var("n", L(1, 1)), Num(0), L(1, 1)),
                        Ret(Call(Var("b", L(1, 1)),
                                 <<Sub(Var("n", L(1, 1)), Num(1), L(1, 1))>>, L(1, 1)), L(1, 1)),
                        None),
                 Ret(Num(0), L(1, 2))>>, T(1)),
           Fun("b", <<"n">>,
               <<Ret(Call(Var("a", L(2, 1)), <<Var("n", L(2, 1))>>, L(2, 1)), L(2, 1))>>, T(2)),
           PrintStmt(Call(Var("a", T(3)), <<Num(1)>>, T(3)))>>
    [] name = "fn_error" ->
         \* fun bad() { 1 + "a"; } bad(); print 2;
         <<Fun("bad", <<>>, <<ExprStmt(Add(Num(1), Str("a"), L(1, 1)))>>, T(1)),
           ExprStmt(Call(Var("bad", T(2)), <<>>, T(2))),
           PrintStmt(Num(2))>>
    [] name = "two_errors" ->
         \* 1 + "a"; print 2; print nil - 1; print 3;
         <<ExprStmt(Add(Num(1), Str("a"), T(1))),
           PrintStmt(Num(2)),
           PrintStmt(Sub(LiteralExpr("Nil", NilV), Num(1), T(3))),
           PrintStmt(Num(3))>>
    [] name = "block_exits" ->
         \* { var b = 1; print b + "s"; print b; }
         \* fun w() { var k = 7; while (true) { { return k; } } }
         \* print w(); { print 1; }
         <<PoolStmt("block_error", T(1), split),
           PoolStmt("fun_w", T(2), split),
           PoolStmt("call_w", T(3), split),
           BlockStmt(<<PrintStmt(Num(1))>>)>>

\* var i = 0; for (<init> <cond>; <incr>) <body> print i;
\* with each clause of the for statement present or absent
ForInits == {"none", "var", "expr"}
ForConds == {"none", "less"}
ForIncrs == {"none", "incr"}
ForBodies == {"print", "block"}

ForClause(which, l, split) ==
  CASE which = "none" -> None
    [] which = "var" -> VarStmt(Ident("i", l), Num(0))            \* var i = 0;
    [] which = "expr" -> ExprStmt(Asg("i", l, Num(0)))            \* i = 0;
    [] which = "less" -> Lt(Var("i", l), Num(2), l)               \* i < 2
    [] which = "incr" -> Asg("i", l, Add(Var("i", l), Num(1), l)) \* i = i + 1
    [] which = "print" -> PrintStmt(Var("i", Ln(l, split, 1)))    \* print i;
    [] which = "block" ->                                         \* { print i; }
         BlockStmt(<<PrintStmt(Var("i", Ln(l, split, 1)))>>)

ForProgram(init, cond, incr, body, split) ==
  <<VarStmt(Ident("i", TopLine(1, split)), Num(0)),
    for_statement(ForClause(init, TopLine(2, split), split),
                  ForClause(cond, TopLine(2, split), split),
                  ForClause(incr, TopLine(2, split), split),
                  ForClause(body, TopLine(2, split), split)),
    PrintStmt(Var("i", TopLine(3, split)))>>

\* programs about the placement of `return` and about nested declarations
ResolverScenarioNames ==
  {"ret_top", "ret_after_fun", "ret_after_class", "ret_in_block", "ret_init_value",
   "ret_init_if", "ret_init_bare", "ret_init_nested", "ret_method_after_init",
   "ret_init_after_nested", "nested_decl"}

ResolverScenario(name, split) ==
  LET T(k) == TopLine(k, split)
      L(k, j) == Ln(T(k), split, j) IN
  CASE name = "ret_top" ->        \* print 1; return;
         <<PrintStmt(Num(1)), Ret(None, T(2))>>
    [] name = "ret_after_fun" ->  \* fun f() { return 1; } return 1;
         <<Fun("f", <<>>, <<Ret(Num(1), L(1, 1))>>, T(1)), Ret(Num(1), T(2))>>
    [] name = "ret_after_class" ->  \* class A { m() { return 1; } } return;
         <<Class("A", <<Fun("m", <<>>, <<Ret(Num(1), L(1, 1))>>, T(1))>>, T(1)),
           Ret(None, T(2))>>
    [] name = "ret_in_block" ->   \* { while (true) return 1; }
         <<BlockStmt(<<WhileStmt(Bool(TRUE), Ret(Num(1), T(1)))>>)>>
    [] name = "ret_init_value" -> \* class A { init() { return 1; } }
         <<Class("A", <<Fun("init", <<>>, <<Ret(Num(1), L(1, 1))>>, T(1))>>, T(1))>>
    [] name = "ret_init_if" ->    \* class A { init() { if (true) { return 1; } } }
         <<Class("A", <<Fun("init", <<>>,
                            <<IfStmt(Bool(TRUE), BlockStmt(<<Ret(Num(1), L(1, 1))>>), None)>>,
                            T(1))>>, T(1))>>
    [] name = "ret_init_bare" ->  \* class A { init() { return; } }
         <<Class("A", <<Fun("init", <<>>, <<Ret(None, L(1, 1))>>, T(1))>>, T(1))>>
    [] name = "ret_init_nested" ->  \* class A { init() { fun g() { return 1; } } }
         <<Class("A", <<Fun("init", <<>>,
                            <<Fun("g", <<>>, <<Ret(Num(1), L(1, 2))>>, L(1, 1))>>, T(1))>>,
                 T(1))>>
    [] name = "ret_method_after_init" ->  \* class A { init() { } m() { return 1; } }
         <<Class("A", <<Fun("init", <<>>, <<>>, T(1)),
                        Fun("m", <<>>, <<Ret(Num(1), L(1, 2))>>, L(1, 1))>>, T(1))>>
    [] name = "ret_init_after_nested" ->
         \* class A { init() { fun g() { return 1; } return 2; } }
         <<Class("A", <<Fun("init", <<>>,
                            <<Fun("g", <<>>, <<Ret(Num(1), L(1, 2))>>, L(1, 1)),
                              Ret(Num(2), L(1, 3))>>, T(1))>>, T(1))>>
    [] name = "nested_decl" ->
         \* { var c = 1; fun f(a) { var b = a; { print b; } }
         \*   class A { m() { print this; } } print c; }
         <<BlockStmt(<<VarStmt(Ident("c", L(1, 1)), Num(1)),
                       Fun("f", <<"a">>,
                           <<VarStmt(Ident("b", L(1, 3)), Var("a", L(1, 3))),
                             BlockStmt(<<PrintStmt(Var("b", L(1, 4)))>>)>>, L(1, 2)),
                       Class("A", <<Fun("m", <<>>, <<PrintStmt(This(L(1, 6)))>>, L(1, 5))>>,
                             L(1, 5)),
                       PrintStmt(Var("c", L(1, 7)))>>)>>

(***************************************************************************)
(* Spec: main.rs.  run_file / run_prompt read a source text and call       *)
(* run(): parse, Interpreter::new, Resolver::resolve, then interpret(),    *)
(* one top-level statement per step.                                       *)
(***************************************************************************)
Programs ==
  [kind : {"pool"}, names : UNION {[1 .. n -> PoolNames] : n \in 1 .. MaxProgLen}]
  \cup [kind : {"scenario"}, name : ScenarioNames]
  \cup [kind : {"for"}, init : ForInits, cond : ForConds, incr : ForIncrs, body : ForBodies]

Parsed(p, split) ==
  CASE p.kind = "pool" -> PoolProgram(p.names, split)
    [] p.kind = "resolver" -> ResolverScenario(p.name, split)
    [] p.kind = "scenario" -> Scenario(p.name, split)
    [] p.kind = "for" -> ForProgram(p.init, p.cond, p.incr, p.body, split)

\* Interpreter::new: globals holds clock; environment = globals
Interpreter_new_heap == <<[values |-> MapPut(EmptyMap, "clock", CallableV(1)), enclosing |-> 0]>>

NoProgram == [kind |-> "none"]

\* SpecEnv: no Environment method has been called
NoCall == [op |-> "none", id |-> 0, distance |-> 0, name |-> "", value |-> NilV,
           ok |-> FALSE, got |-> NilV, pre |-> FALSE]

\* SpecResolver: no statements handed to a Resolver
NoResolver == [statements |-> <<>>, run |-> 0, pc |-> 0, rs |-> Resolver_new,
               first |-> [x \in {} |-> 0]]

\* no source text has been read
NoRun ==
  /\ phase = "start"
  /\ mode = "none"
  /\ program = [src |-> NoProgram, split |-> FALSE]
  /\ stmts = <<>>
  /\ pc = 0
  /\ cells = <<>>
  /\ environment = 0
  /\ locals = [x \in {} |-> 0]
  /\ out = <<>>
  /\ err = <<>>
  /\ exit_code = -1
  /\ results = <<>>
  /\ blocks = <<>>
  /\ resolve_calls = <<>>
  /\ accesses = <<>>
  /\ resolver = NoResolver

\* no token stream handed to a Parser
NoParser == Parser_new(<<>>)

Init ==
  /\ NoRun
  /\ heap = <<>>
  /\ env_call = NoCall
  /\ parser = NoParser

\* run(): the source parsed without error; a new interpreter and resolver
Run(p, split, m) ==
  /\ phase = "start"
  /\ phase' = "resolve"
  /\ mode' = m
  /\ program' = [src |-> p, split |-> split]
  /\ stmts' = Parsed(p, split)
  /\ heap' = Interpreter_new_heap
  /\ cells' = <<ClockCallable>>
  /\ environment' = Globals
  /\ locals' = [x \in {} |-> 0]
  /\ UNCHANGED <<pc, out, err, exit_code, results, blocks, resolve_calls, env_call, accesses,
                 parser, resolver>>

\* main with one argument: run_file(path)
RunFile(p, split) == Run(p, split, "script")

\* main without arguments: run_prompt reads one line
RunPrompt(p) == Run(p, FALSE, "repl")

\* resolver.resolve(&stmts); a panic in it aborts the process
Resolve ==
  /\ phase = "resolve"
  /\ \E rs \in {Resolver_resolve(Resolver_new, stmts, 1)} :
       /\ locals' = rs.locals
       /\ resolve_calls' = rs.calls
       /\ err' = err \o rs.reported
       /\ phase' = IF rs.panicked THEN "aborted" ELSE "interpret"
       /\ exit_code' = IF rs.panicked THEN 101 ELSE exit_code
       /\ pc' = 1
  /\ UNCHANGED <<mode, program, stmts, heap, cells, environment, out, results, blocks, env_call,
                 accesses, parser, resolver>>

\* one iteration of the loop of interpret(): execute, and print an Err
Interpret ==
  /\ phase = "interpret"
  /\ pc <= Len(stmts)
  /\ \E s1 \in {execute([heap |-> heap, cells |-> cells, environment |-> environment,
                           locals |-> locals, borrowed |-> {}, out |-> out, blocks |-> blocks,
                           accesses |-> accesses, fuel |-> MaxLoopIter, res |-> ROk(NilV)], stmts[pc])} :
       /\ heap' = s1.heap
       /\ cells' = s1.cells
       /\ environment' = s1.environment
       /\ out' = s1.out
       /\ blocks' = s1.blocks
       /\ accesses' = s1.accesses
       /\ results' = Append(results, s1.res.k)
       /\ err' = IF s1.res.k = "Ok" \/ s1.res.k = "OutOfFuel" THEN err
                 ELSE Append(err, s1.res.message)
       /\ phase' = CASE s1.res.k = "Panic" -> "aborted"
                     [] s1.res.k = "OutOfFuel" -> "running"
                     [] OTHER -> "interpret"
       /\ exit_code' = IF s1.res.k = "Panic" THEN 101 ELSE exit_code
       /\ pc' = pc + 1
  /\ UNCHANGED <<mode, program, stmts, locals, resolve_calls, env_call, parser, resolver>>

\* interpret() and run() return: run_file returns to main, which ends with
\* exit code 0; run_prompt goes back to its prompt
Return ==
  /\ phase = "interpret"
  /\ pc > Len(stmts)
  /\ phase' = IF mode = "script" THEN "exited" ELSE "prompt"
  /\ exit_code' = IF mode = "script" THEN 0 ELSE exit_code
  /\ UNCHANGED <<mode, program, stmts, pc, heap, cells, environment, locals, out, err,
                 results, blocks, resolve_calls, env_call, accesses, parser, resolver>>

Next ==
  \/ \E p \in Programs, split \in BOOLEAN : RunFile(p, split)
  \/ \E p \in Programs : RunPrompt(p)
  \/ Resolve
  \/ Interpret
  \/ Return

(***************************************************************************)
(* SpecEnv: the Environment methods called in any order on a chain of      *)
(* frames.                                                                 *)
(***************************************************************************)
EnvNames == {"b"}
EnvValues == {NumberV(1), NumberV(2)}
EnvDistances == 0 .. MaxFrames

\* the variables of the run, which no Environment call of SpecEnv touches
run_vars == <<cells, environment, locals, phase, mode, program, stmts, pc, out, err,
              exit_code, results, blocks, resolve_calls, accesses, parser, resolver>>

\* one frame without enclosing frame, as Environment::new() makes it
InitEnv ==
  /\ NoRun
  /\ heap = <<Environment_new>>
  /\ env_call = NoCall
  /\ parser = NoParser

EnvNewEnclosed(e) ==
  /\ UNCHANGED run_vars
  /\ Len(heap) < MaxFrames
  /\ heap' = Alloc(heap, Environment_new_enclosed(e))
  /\ env_call' = [NoCall EXCEPT !.op = "new_enclosed", !.id = e]

EnvDefine(id, name, value) ==
  /\ UNCHANGED run_vars
  /\ heap' = Environment_define(heap, id, name, value)
  /\ env_call' = [NoCall EXCEPT !.op = "define", !.id = id, !.name = name, !.value = value]

EnvGet(id, name) ==
  /\ UNCHANGED run_vars
  /\ UNCHANGED heap
  /\ env_call' = [op |-> "get", id |-> id, distance |-> 0, name |-> name, value |-> NilV,
                  ok |-> Environment_get(heap, id, name).ok,
                  got |-> Environment_get(heap, id, name).v,
                  pre |-> \E d \in EnvDistances : Binds(heap, AncestorId(heap, id, d), name)]

EnvGetAt(id, distance, name) ==
  /\ UNCHANGED run_vars
  /\ UNCHANGED heap
  /\ env_call' = [op |-> "get_at", id |-> id, distance |-> distance, name |-> name, value |-> NilV,
                  ok |-> Environment_get_at(heap, id, distance, name).ok,
                  got |-> Environment_get_at(heap, id, distance, name).v,
                  pre |-> Binds(heap, AncestorId(heap, id, distance), name)]

EnvAssignAt(id, distance, name, value) ==
  /\ UNCHANGED run_vars
  /\ LET r == Environment_assign_at(heap, id, distance, name, value) IN
       /\ heap' = r.heap
       /\ env_call' = [op |-> "assign_at", id |-> id, distance |-> distance, name |-> name,
                    value |-> value, ok |-> r.ok, got |-> NilV,
                    pre |-> Binds(heap, AncestorId(heap, id, distance), name)]

EnvAssign(id, name, value) ==
  /\ UNCHANGED run_vars
  /\ LET r == Environment_assign(heap, id, name, value) IN
       /\ heap' = r.heap
       /\ env_call' = [op |-> "assign", id |-> id, distance |-> 0, name |-> name,
                    value |-> value, ok |-> r.ok, got |-> NilV,
                    pre |-> \E d \in EnvDistances : Binds(heap, AncestorId(heap, id, d), name)]

NextEnv ==
  \/ \E e \in 1 .. Len(heap) : EnvNewEnclosed(e)
  \/ \E id \in 1 .. Len(heap), name \in EnvNames, value \in EnvValues : EnvDefine(id, name, value)
  \/ \E id \in 1 .. Len(heap), name \in EnvNames : EnvGet(id, name)
  \/ \E id \in 1 .. Len(heap), d \in EnvDistances, name \in EnvNames : EnvGetAt(id, d, name)
  \/ \E id \in 1 .. Len(heap), d \in EnvDistances, name \in EnvNames, value \in EnvValues :
       EnvAssignAt(id, d, name, value)
  \/ \E id \in 1 .. Len(heap), name \in EnvNames, value \in EnvValues : EnvAssign(id, name, value)

vars == <<heap, cells, environment, locals, phase, mode, program, stmts, pc, out, err,
          exit_code, results, blocks, resolve_calls, env_call, accesses, parser, resolver>>

Spec == Init /\ [][Next]_vars

SpecEnv == InitEnv /\ [][NextEnv]_vars

(***************************************************************************)
(* SpecParser: Parser::parse on every stream of at most MaxTokens tokens   *)
(* followed by Eof, one iteration of its loop at a time.                   *)
(***************************************************************************)
Eof == Token("Eof", "", 1)

ParserTokens ==
  {Token("Identifier", "a", 1), Token("Number", "1", 1), Token("Equal", "=", 1),
   Token("Plus", "+", 1), Token("Semicolon", ";", 1), Token("Print", "print", 1),
   Token("Var", "var", 1), Token("LeftParen", "(", 1), Token("RightParen", ")", 1),
   Token("LeftBrace", "{", 1), Token("RightBrace", "}", 1), Token("Return", "return", 1)}

TokenStreams ==
  {Append(t, Eof) : t \in UNION {[1 .. n -> ParserTokens] : n \in 0 .. MaxTokens}}

\* the variables no step of the parser touches
interpreter_vars == <<heap, cells, environment, locals, phase, mode, program, stmts, pc, out,
                      err, exit_code, results, blocks, resolve_calls, env_call, accesses,
                      resolver>>

\* Parser::new(tokens), and the two locals of parse() as it starts
InitParser ==
  /\ NoRun
  /\ heap = <<>>
  /\ env_call = NoCall
  /\ parser \in {Parser_new(tokens) : tokens \in TokenStreams}

\* one iteration of `while !self.is_at_end()` of parse()
ParseDeclaration ==
  /\ parser.result = "none"
  /\ ~Parser_is_at_end(parser)
  /\ \E r \in {Parser_declaration(parser)} :
       parser' = IF r.ok
                 THEN [r.ps EXCEPT !.statements = Append(@, r.node)]
                 ELSE [Parser_synchronize(r.ps) EXCEPT !.had_error = TRUE]
  /\ UNCHANGED interpreter_vars

\* the end of parse(): Err(ParserError {}) if had_error, else Ok(statements)
ParseReturn ==
  /\ parser.result = "none"
  /\ Parser_is_at_end(parser)
  /\ parser' = [parser EXCEPT !.result = IF parser.had_error THEN "Err" ELSE "Ok",
                              !.statements = IF parser.had_error THEN <<>> ELSE @]
  /\ UNCHANGED interpreter_vars

NextParser ==
  \/ ParseDeclaration
  \/ ParseReturn

SpecParser == InitParser /\ [][NextParser]_vars

(***************************************************************************)
(* SpecResolver: Resolver::resolve on the statements of a source text, one *)
(* iteration of its loop at a time, and then a second time with a new      *)
(* Resolver on the same interpreter.                                       *)
(***************************************************************************)
ResolverPrograms == Programs \cup [kind : {"resolver"}, name : ResolverScenarioNames]

\* the variables no step of the resolver touches
resolver_free_vars == <<heap, cells, environment, locals, phase, mode, program, stmts, pc, out,
                        err, exit_code, results, blocks, resolve_calls, env_call, accesses,
                        parser>>

InitResolver ==
  /\ NoRun
  /\ heap = <<>>
  /\ env_call = NoCall
  /\ parser = NoParser

\* Resolver::new(interpreter) for the statements of a source text
ResolverStart(p, split) ==
  /\ resolver.run = 0
  /\ resolver' = [NoResolver EXCEPT !.statements = Parsed(p, split), !.run = 1, !.pc = 1]
  /\ UNCHANGED resolver_free_vars

\* one iteration of `for statement in statements` of Resolver::resolve
ResolveStatement ==
  /\ resolver.run > 0
  /\ resolver.pc <= Len(resolver.statements)
  /\ ~resolver.rs.panicked
  /\ \E rs \in {resolve_stmt(resolver.rs, resolver.statements[resolver.pc])} :
       resolver' = [resolver EXCEPT !.rs = rs, !.pc = @ + 1]
  /\ UNCHANGED resolver_free_vars

\* resolve() has returned: a new Resolver on the same interpreter (the same
\* side table) is handed the same statements
ResolveAgain ==
  /\ resolver.run = 1
  /\ resolver.pc > Len(resolver.statements)
  /\ ~resolver.rs.panicked
  /\ resolver' = [resolver EXCEPT !.run = 2, !.pc = 1, !.first = resolver.rs.locals,
                                  !.rs = [Resolver_new EXCEPT !.locals = resolver.rs.locals]]
  /\ UNCHANGED resolver_free_vars

NextResolver ==
  \/ \E p \in ResolverPrograms, split \in BOOLEAN : ResolverStart(p, split)
  \/ ResolveStatement
  \/ ResolveAgain

SpecResolver == InitResolver /\ [][NextResolver]_vars

(***************************************************************************)
(* C1: after assign_at(distance, name, value) on a frame whose ancestor    *)
(* `distance` hops up binds `name`, get_at(distance, name) from the same   *)
(* frame returns `value`, and so does a read of the ancestor cell itself   *)
(* (what every other holder of that frame reads).                          *)
(***************************************************************************)
C1_AssignAtReplacesBinding ==
  (env_call.op = "assign_at" /\ env_call.pre) =>
     /\ env_call.ok
     /\ Environment_get_at(heap, env_call.id, env_call.distance, env_call.name) = Ok(env_call.value)
     /\ heap[AncestorId(heap, env_call.id, env_call.distance)].values[env_call.name] = env_call.value

(***************************************************************************)
(* Properties of whole runs: what they read off a state.                   *)
(***************************************************************************)
ScenarioIs(name) == program.src = [kind |-> "scenario", name |-> name]
PoolIs(names) == program.src = [kind |-> "pool", names |-> names]

\* run() has returned, the process has aborted, or the statement at pc - 1
\* is still looping after MaxLoopIter iterations
Returned == phase \in {"exited", "prompt"}
Ended == Returned \/ phase \in {"aborted", "running"}

BorrowError == "already mutably borrowed: BorrowError"

\* SpecEnv: an assign_at on a bound name has been called
C1_AssignAtCalled ==
  /\ env_call.op = "assign_at"
  /\ env_call.pre
  /\ env_call.distance > 0
  /\ env_call.value # heap[AncestorId(heap, env_call.id, env_call.distance)].values[env_call.name]

(***************************************************************************)
(* C2: closures capture variables by reference.  The counter closure       *)
(* returns 1, 2, 3 on successive calls, and an assignment to a captured    *)
(* local made after the closure was created is seen by the closure.        *)
(***************************************************************************)
C2_ClosuresCaptureByReference ==
  /\ (ScenarioIs("counter") /\ Ended) => (Returned /\ out = <<"1", "2", "3">>)
  /\ (ScenarioIs("late_assign") /\ Ended) => (Returned /\ out = <<"5">>)

\* the counter program has run to its end
C2_CounterHasRun == ScenarioIs("counter") /\ Returned /\ Len(out) = 3

(***************************************************************************)
(* C3: var x = 0; for (var i = 0; i < 3; i = i + 1) x = x + i; print x;    *)
(* terminates and prints 3 (the body has run for i = 0, 1, 2), without a   *)
(* runtime error.                                                          *)
(***************************************************************************)
C3_ForSumPrintsThree ==
  /\ (ScenarioIs("for_sum") /\ pc > 2) => (phase # "running" /\ err = <<>>)
  /\ (ScenarioIs("for_sum") /\ Ended) => out = <<"3">>

\* the for statement of the program has been executed
C3_ForSumHasRun == ScenarioIs("for_sum") /\ pc > 2

(***************************************************************************)
(* C4: for_statement produces { init; while (cond) { body; incr; } }, each *)
(* absent clause omitted and no outer block without initializer; an absent *)
(* condition is a literal that evaluates truthy, so the body of a for      *)
(* without condition is executed.                                          *)
(***************************************************************************)
C4_ForDesugaring ==
  (program.src.kind = "for" /\ phase # "start") =>
    LET src == program.src
        clause(which) == ForClause(which, TopLine(2, program.split), program.split)
        loop == IF src.init = "none" THEN stmts[2] ELSE stmts[2].statements[2]
        body == IF src.incr = "none" THEN clause(src.body)
                ELSE BlockStmt(<<clause(src.body), ExprStmt(clause(src.incr))>>)
        while == WhileStmt(IF src.cond = "none" THEN loop.condition ELSE clause(src.cond),
                           body)
    IN /\ stmts[2] = IF src.init = "none" THEN while
                     ELSE BlockStmt(<<clause(src.init), while>>)
       /\ src.cond = "none" =>
            /\ loop.condition.k = "Literal"
            /\ is_truthy(loop.condition.literal)
            /\ pc > 2 => out # <<>>

\* a for statement without condition has been executed
C4_ForWithoutCondition == program.src.kind = "for" /\ program.src.cond = "none" /\ pc > 2

(***************************************************************************)
(* C5: every execute_block call that returns to its caller (normally, with *)
(* a runtime error, or unwinding a return) ran its statements in a fresh   *)
(* frame whose enclosing frame is the env argument, installed as the       *)
(* current environment, and left the current environment the frame it was  *)
(* before the call; between top-level statements that is the global frame. *)
(***************************************************************************)
C5_BlockRestoresEnvironment ==
  /\ \A i \in 1 .. Len(blocks) :
       blocks[i].exit \in {"Ok", "FatalError", "ReturnValue"} =>
         /\ blocks[i].after = blocks[i].prev
         /\ blocks[i].inner = blocks[i].heap_before + 1
         /\ blocks[i].installed = blocks[i].inner
         /\ blocks[i].inner # blocks[i].prev
         /\ heap[blocks[i].inner].enclosing = blocks[i].env
  /\ phase \in {"interpret", "exited", "prompt"} => environment = Globals

\* one run in which blocks were left on each of the three paths, the
\* return through two nested blocks and a call
C5_EveryExitPath ==
  /\ ScenarioIs("block_exits")
  /\ Returned
  /\ \A exit \in {"Ok", "FatalError", "ReturnValue"} :
       \E i \in 1 .. Len(blocks) : blocks[i].exit = exit /\ blocks[i].prev # blocks[i].inner
  /\ Len(SelectSeq(blocks, LAMBDA b : b.exit = "ReturnValue")) >= 3

(***************************************************************************)
(* C6: the side table is keyed by the identity of the expression: every    *)
(* reference the resolver resolved keeps the distance recorded for it,     *)
(* also when another reference with the same identifier on the same line   *)
(* was resolved at a different depth.                                      *)
(***************************************************************************)
C6_SideTableKeyedByIdentity ==
  \A i \in 1 .. Len(resolve_calls) : locals[resolve_calls[i].expr] = resolve_calls[i].depth

\* two references with the same name and line were resolved at different depths
C6_SameTextTwoDepths ==
  \E i, j \in 1 .. Len(resolve_calls) :
    /\ resolve_calls[i].expr = resolve_calls[j].expr
    /\ resolve_calls[i].depth # resolve_calls[j].depth

(***************************************************************************)
(* C7: the evaluator is reentrant: a call made while another call is       *)
(* running (of another function, or of the same function value by direct   *)
(* or mutual recursion) passes the arity check, is dispatched and returns  *)
(* its value.                                                              *)
(***************************************************************************)
C7_NestedCallsReturn ==
  /\ \A i \in 1 .. Len(err) : err[i] # BorrowError
  /\ (ScenarioIs("nested_calls") /\ Ended) => (Returned /\ out = <<"2">>)
  /\ (ScenarioIs("mutual") /\ Ended) => (Returned /\ out = <<"0">>)
  /\ (PoolIs(<<"fun_r", "call_r">>) /\ Ended) => (Returned /\ out = <<"0">>)

\* a program that calls a function from within a call has ended
C7_NestedCallMade ==
  /\ ScenarioIs("nested_calls") \/ ScenarioIs("mutual") \/ PoolIs(<<"fun_r", "call_r">>)
  /\ Ended

(***************************************************************************)
(* C8: a runtime error raised in the body of a called function ends only   *)
(* the top-level statement that made the call: it is reported and the      *)
(* interpreter goes on with the next top-level statement.                  *)
(***************************************************************************)
C8_ErrorInCallEndsOneStatement ==
  /\ (ScenarioIs("fn_error") /\ Ended) =>
        /\ Returned
        /\ results = <<"Ok", "FatalError", "Ok">>
        /\ Len(err) = 1
        /\ out = <<"2">>
  /\ \A i \in 1 .. Len(err) : err[i] # "Error in function call"

\* the statement that calls the failing function has been executed
C8_FailingCallMade == ScenarioIs("fn_error") /\ pc > 2

(***************************************************************************)
(* C9: in script mode the first runtime error ends the run: no later       *)
(* top-level statement is executed and the exit code is 70.                *)
(***************************************************************************)
C9_ScriptStopsAtFirstError ==
  mode = "script" =>
    \A i \in 1 .. Len(results) :
      results[i] = "FatalError" =>
        /\ i = Len(results)
        /\ phase = "exited" => exit_code = 70

\* a script has reported a runtime error
C9_ScriptReportedError == mode = "script" /\ \E i \in 1 .. Len(results) : results[i] = "FatalError"

(***************************************************************************)
(* C10: when the resolver reports an error (for one, a local variable      *)
(* read in its own initializer) no statement is evaluated.                 *)
(***************************************************************************)
C10_ResolverErrorStopsRun ==
  phase \notin {"start", "resolve"} =>
    \A rs \in {Resolver_resolve(Resolver_new, stmts, 1)} :
      (rs.panicked \/ rs.reported # <<>>) => results = <<>>

\* the resolver has reported a variable read in its own initializer
C10_ResolverReported ==
  /\ phase \notin {"start", "resolve"}
  /\ Resolver_resolve(Resolver_new, stmts, 1).reported # <<>>


(***************************************************************************)
(* C11: whenever the parser has reported a diagnostic while parsing a      *)
(* token stream, a synchronizing one or "Invalid assignment target.",      *)
(* Parser::parse returns Err and no statement list.                        *)
(***************************************************************************)
C11_DiagnosticMakesParseErr ==
  (parser.result # "none" /\ parser.reported # <<>>)
    => (parser.result = "Err" /\ parser.statements = <<>>)

\* parse() has returned Ok(statements) although a diagnostic was written
C11_InvalidTargetReturnsOk ==
  /\ parser.result = "Ok"
  /\ parser.statements # <<>>
  /\ \E i \in DOMAIN parser.reported :
       parser.reported[i].message = "Invalid assignment target."

(***************************************************************************)
(* C12: when the expression left of `=` is not an assignable target, the   *)
(* parser reports "Invalid assignment target." without consuming the `=`:  *)
(* when assignment() returns the left expression the cursor still points   *)
(* at the `=` token.                                                       *)
(***************************************************************************)
C12_CursorStaysAtEquals ==
  \A i \in DOMAIN parser.targets : parser.targets[i].current = parser.targets[i].equals

\* an invalid target was reported, with the `=` and its right side consumed
C12_EqualsAndValueConsumed ==
  \E i \in DOMAIN parser.targets : parser.targets[i].current > parser.targets[i].equals + 1


(***************************************************************************)
(* C13: the evaluator reads and writes every name for which the resolver   *)
(* recorded a distance d through get_at / assign_at, called on the current *)
(* environment with exactly d; every name without a recorded distance is   *)
(* read and written in the globals frame only.                             *)
(***************************************************************************)
C13_AccessAtRecordedDistance ==
  \A a \in 1 .. Len(accesses) :
    /\ \A i \in 1 .. Len(resolve_calls) :
         resolve_calls[i].expr = accesses[a].expr
           => /\ accesses[a].method \in {"get_at", "assign_at"}
              /\ accesses[a].distance = resolve_calls[i].depth
    /\ (\A i \in 1 .. Len(resolve_calls) : resolve_calls[i].expr # accesses[a].expr)
         => /\ accesses[a].method \in {"get", "assign"}
            /\ accesses[a].frame = Globals

\* a reference was read or written at another distance than one recorded for it
C13_AccessAtOtherDistance ==
  \E a \in 1 .. Len(accesses), i \in 1 .. Len(resolve_calls) :
    /\ resolve_calls[i].expr = accesses[a].expr
    /\ accesses[a].distance # resolve_calls[i].depth


(***************************************************************************)
(* C14: a method read from an instance by a Get expression and stored in a *)
(* variable stays bound to that instance: called later, from a block, from *)
(* another function or as a property of another instance, and after        *)
(* property writes to the instance, `this` in it is the instance it was    *)
(* read from.                                                              *)
(***************************************************************************)
C14_StoredMethodStaysBound ==
  /\ (ScenarioIs("bound_method") /\ Ended) => (Returned /\ out = <<"2", "2", "2">> /\ err = <<>>)
  /\ ScenarioIs("bound_method")
       => \A i \in 1 .. Len(out) : out[i] = "2"

\* the stored method has been called three times and the run has returned
C14_StoredMethodCalled == ScenarioIs("bound_method") /\ Returned /\ Len(out) = 3

(***************************************************************************)
(* C15: calling a class value makes a new instance with an empty property  *)
(* map, runs init (if the class has one) bound to it with the arguments of *)
(* the call, and yields that instance whether init falls off its end or    *)
(* executes `return;`; the property writes of init are visible on it.      *)
(***************************************************************************)
InstancesOf(class_name) ==
  {i \in DOMAIN cells : cells[i].kind = "Instance" /\ cells[cells[i].class].name = class_name}

C15_ClassCallYieldsInstance ==
  /\ (ScenarioIs("construct") /\ Ended)
       => /\ Returned
          /\ out = <<"7", "1", "8", "P instance", "E instance">>
          /\ err = <<>>
          /\ Cardinality(InstancesOf("P")) = 2
          /\ \A i \in InstancesOf("E") : cells[i].properties = EmptyMap
  /\ \A i \in DOMAIN results : ScenarioIs("construct") => results[i] = "Ok"

\* instances with and without init have been made and read
C15_InstancesMade ==
  /\ ScenarioIs("construct") /\ Returned
  /\ InstancesOf("P") # {} /\ InstancesOf("Q") # {} /\ InstancesOf("E") # {}

(***************************************************************************)
(* C16: a method named init is flagged as initializer when the class is    *)
(* created, so a direct call obj.init() returns the bound `this` and not   *)
(* nil.                                                                    *)
(***************************************************************************)
C16_InitIsInitializer ==
  /\ \A c \in DOMAIN cells :
       (cells[c].kind = "Class" /\ "init" \in DOMAIN cells[c].methods)
         => cells[c].methods["init"].is_initializer
  /\ (ScenarioIs("init_direct") /\ Ended) => out = <<"Q instance">>

\* obj.init() was called directly and nil was printed
C16_DirectInitPrintsNil == ScenarioIs("init_direct") /\ Returned /\ out = <<"nil">>

(***************************************************************************)
(* C17: a return statement anywhere in a function body (in nested blocks,  *)
(* an if, a while) stops the statements of that activation, unwinds to the *)
(* nearest enclosing call only, and makes that call evaluate to the        *)
(* returned value, nil when there is none; it never reaches the top-level  *)
(* loop as an error.                                                       *)
(***************************************************************************)
C17_ReturnUnwindsToCall ==
  /\ \A i \in DOMAIN results : results[i] # "ReturnValue"
  /\ (ScenarioIs("early_return") /\ Ended)
       => (Returned /\ out = <<"1", "nil", "2", "h", "nil">> /\ err = <<>>)
  /\ (PoolIs(<<"fun_w", "call_w">>) /\ Ended) => (Returned /\ out = <<"7">> /\ err = <<>>)

\* calls that return from inside a while, an if and nested blocks have ended
C17_ReturnsExecuted ==
  /\ ScenarioIs("early_return") /\ Returned
  /\ Len(SelectSeq(blocks, LAMBDA b : b.exit = "ReturnValue")) >= 4

(***************************************************************************)
(* C18: binding is lexical.  In                                            *)
(*   var a = "global";                                                     *)
(*   { fun show() { print a; } show(); var a = "local"; show(); }          *)
(* both calls of show print global.                                        *)
(***************************************************************************)
C18_LexicalBinding ==
  /\ (ScenarioIs("lexical") /\ Ended) => (Returned /\ out = <<"global", "global">> /\ err = <<>>)
  /\ ScenarioIs("lexical") => \A i \in DOMAIN out : out[i] = "global"

\* show was called before and after the declaration of the local a
C18_ShowCalledTwice == ScenarioIs("lexical") /\ Returned /\ Len(out) = 2

(***************************************************************************)
(* C19: `a or b` does not evaluate b when a is truthy and `a and b` does   *)
(* not evaluate b when a is falsy; the value of the expression is the      *)
(* value of the deciding operand itself, not a Boolean made from it.       *)
(***************************************************************************)
C19_ShortCircuit ==
  /\ (ScenarioIs("short_circuit") /\ Ended)
       => /\ Returned
          /\ out = <<"true", "nil", "0", "s", "2", "1", "false">>
          /\ err = <<>>
  /\ ScenarioIs("short_circuit")
       => \A i \in DOMAIN accesses : accesses[i].method # "assign"

\* every or / and of the program has been evaluated
C19_LogicalEvaluated == ScenarioIs("short_circuit") /\ Returned /\ Len(out) = 7

(***************************************************************************)
(* C20: subterms are evaluated strictly left to right.  Binary: the left   *)
(* operand, then the right one, both before the operand types are checked. *)
(* Call: the callee, then the arguments in order, all before the arity     *)
(* check and the dispatch.                                                 *)
(***************************************************************************)
C20_LeftToRight ==
  (ScenarioIs("eval_order") /\ Ended)
    => /\ Returned
       /\ out = <<"1", "2", "3", "3", "a", "4", "5">>
       /\ err = <<"must be numbers or strings.", "Expected 1 arguments but got 2.",
                  Undefined("nofn")>>

\* the operands of a wrongly typed + and the arguments of a call with the
\* wrong arity have been evaluated
C20_OperandsEvaluated ==
  /\ ScenarioIs("eval_order") /\ Returned
  /\ Len(out) = 7 /\ Len(err) = 3


(***************************************************************************)
(* C21: Environment.assign(name, value) updates the binding in the first   *)
(* frame along the enclosing chain (innermost first) that contains the     *)
(* name and leaves every other frame unchanged; if no frame contains the   *)
(* name it fails with an undefined-variable error and the whole chain is   *)
(* unchanged: it never creates a binding.                                  *)
(***************************************************************************)
\* the distances of the frames on the chain of cell id that bind the name
Binders(H, id, name) == {d \in EnvDistances : Binds(H, AncestorId(H, id, d), name)}

\* the innermost frame on the chain of cell id that binds the name
FirstBinder(H, id, name) ==
  AncestorId(H, id, CHOOSE d \in Binders(H, id, name) :
                      \A e \in Binders(H, id, name) : d <= e)

C21_AssignUpdatesFirstBinder ==
  [][env_call'.op = "assign" =>
       IF Binders(heap, env_call'.id, env_call'.name) # {}
       THEN /\ env_call'.ok
            /\ heap' = [heap EXCEPT
                          ![FirstBinder(heap, env_call'.id, env_call'.name)].values =
                             MapPut(@, env_call'.name, env_call'.value)]
       ELSE /\ ~env_call'.ok
            /\ heap' = heap]_vars

\* an assign from a frame that does not bind the name has updated an outer
\* frame, while another frame keeps a different value for the name
C21_AssignedInOuterFrame ==
  /\ env_call.op = "assign"
  /\ env_call.ok
  /\ ~Binds(heap, env_call.id, env_call.name)
  /\ FirstBinder(heap, env_call.id, env_call.name) # env_call.id
  /\ heap[FirstBinder(heap, env_call.id, env_call.name)].values[env_call.name] = env_call.value
  /\ \E f \in 1 .. Len(heap) :
       /\ Binds(heap, f, env_call.name)
       /\ heap[f].values[env_call.name] # env_call.value


(***************************************************************************)
(* C22: after any sequence of define calls on frames of a chain,           *)
(* Environment.get(name) returns the value most recently defined for the   *)
(* name in the innermost frame that binds it (a define in an inner frame   *)
(* shadows outer bindings without changing them; a repeated define in one  *)
(* frame overwrites), and fails with an undefined-variable error exactly   *)
(* when no frame on the chain binds the name.                              *)
(***************************************************************************)
C22_GetReturnsInnermostDefine ==
  [][/\ env_call'.op = "define" =>
          heap' = [heap EXCEPT ![env_call'.id].values =
                                  MapPut(@, env_call'.name, env_call'.value)]
     /\ env_call'.op = "get" =>
          /\ heap' = heap
          /\ env_call'.ok = (Binders(heap, env_call'.id, env_call'.name) # {})
          /\ env_call'.ok =>
               env_call'.got =
                 heap[FirstBinder(heap, env_call'.id, env_call'.name)].values[env_call'.name]]_vars

\* a get through a frame that shadows a different outer value for the name
C22_GetOfShadowedName ==
  /\ env_call.op = "get"
  /\ env_call.ok
  /\ Binds(heap, env_call.id, env_call.name)
  /\ env_call.got = heap[env_call.id].values[env_call.name]
  /\ \E d \in EnvDistances \ {0} :
       /\ Binds(heap, AncestorId(heap, env_call.id, d), env_call.name)
       /\ heap[AncestorId(heap, env_call.id, d)].values[env_call.name] # env_call.got


(***************************************************************************)
(* C23: the resolver rejects a `return` statement whenever it is not       *)
(* lexically inside a function body (also a `return` that follows a        *)
(* completed function or class declaration at top level), and rejects a    *)
(* value-bearing `return` directly inside a method named `init`, while it  *)
(* allows a value-bearing `return` in a function nested inside `init`.     *)
(***************************************************************************)
ReturnFromTopLevel == "Error: Can't return from top-level code."
ReturnFromInitializer == "Error: Can't return a value from an initializer."

\* The report that the text of a statement calls for, read off the tree:
\* `inside` is the kind of the innermost function body that encloses the
\* statement ("None" outside every function body).  "" if none is called for.
RECURSIVE MisplacedReturn(_, _)
RECURSIVE MisplacedReturnIn(_, _, _)
RECURSIVE MisplacedReturnInMethods(_, _)
MisplacedReturn(stmt, inside) ==
  CASE stmt.k = "Return" ->
         IF inside = "None" THEN ReturnFromTopLevel
         ELSE IF stmt.value # None /\ inside = "Initializer" THEN ReturnFromInitializer
              ELSE ""
    [] stmt.k = "Block" -> MisplacedReturnIn(stmt.statements, 1, inside)
    [] stmt.k = "Fun" -> MisplacedReturnIn(stmt.body.statements, 1, "Function")
    [] stmt.k = "Class" -> MisplacedReturnInMethods(stmt.methods, 1)
    [] stmt.k = "If" ->
         IF MisplacedReturn(stmt.then_branch, inside) # ""
         THEN MisplacedReturn(stmt.then_branch, inside)
         ELSE IF stmt.else_branch # None THEN MisplacedReturn(stmt.else_branch, inside) ELSE ""
    [] stmt.k = "While" -> MisplacedReturn(stmt.body, inside)
    [] OTHER -> ""

MisplacedReturnIn(statements, i, inside) ==
  IF i > Len(statements) THEN ""
  ELSE IF MisplacedReturn(statements[i], inside) # ""
       THEN MisplacedReturn(statements[i], inside)
       ELSE MisplacedReturnIn(statements, i + 1, inside)

MisplacedReturnInMethods(methods, i) ==
  IF i > Len(methods) THEN ""
  ELSE LET inside == IF methods[i].name.token = "init" THEN "Initializer" ELSE "Method"
       IN IF MisplacedReturnIn(methods[i].body.statements, 1, inside) # ""
          THEN MisplacedReturnIn(methods[i].body.statements, 1, inside)
          ELSE MisplacedReturnInMethods(methods, i + 1)

\* resolve() has returned or panicked
ResolverDone ==
  /\ resolver.run > 0
  /\ (resolver.pc > Len(resolver.statements) \/ resolver.rs.panicked)

ReturnReports(reported) ==
  {i \in DOMAIN reported : reported[i] \in {ReturnFromTopLevel, ReturnFromInitializer}}

C23_MisplacedReturnRejected ==
  ResolverDone =>
    IF MisplacedReturnIn(resolver.statements, 1, "None") # ""
    THEN /\ resolver.rs.panicked
         /\ resolver.rs.reported[Len(resolver.rs.reported)] =
              MisplacedReturnIn(resolver.statements, 1, "None")
    ELSE ReturnReports(resolver.rs.reported) = {}

\* a top-level `return` after a completed class declaration has been rejected
C23_ReturnAfterClassRejected ==
  /\ ResolverDone
  /\ resolver.rs.panicked
  /\ resolver.rs.reported = <<ReturnFromTopLevel>>
  /\ \E i \in DOMAIN resolver.rs.nodes : resolver.rs.nodes[i].k = "Class"


(***************************************************************************)
(* C24: a call whose argument count differs from the callee's arity (the   *)
(* parameter count of a function; the arity of `init` for a class, or 0    *)
(* without `init`) fails with "Expected N arguments but got M." after the  *)
(* arguments were evaluated and before any part of the callee's body runs; *)
(* calling a value that is not a function or class fails with a            *)
(* not-callable error.  In the program `arity` the last call, r(1, 2) made *)
(* from the body of r, is inside a function body, so its error ends the    *)
(* run as C8 describes.                                                    *)
(***************************************************************************)
ArityReports ==
  <<"Expected 1 arguments but got 2.", "Expected 1 arguments but got 0.",
    "Expected 1 arguments but got 0.", "Expected 0 arguments but got 1.",
    "s is not callable.", "E instance is not callable.", "Expected 0 arguments but got 1.">>

C24_ArityMismatchFails ==
  (ScenarioIs("arity") /\ Ended)
    => /\ out = <<"1", "2", "3", "4", "0">>
       /\ Len(err) = 8
       /\ SubSeq(err, 1, 7) = ArityReports
       /\ err[8] \in {"Expected 1 arguments but got 2.", "Error in function call"}

\* every call of `arity` made from the top level has failed as stated, and
\* the call r(1, 2) made while r is running has panicked on the RefCell of r
C24_RecursiveArityMismatchPanics ==
  /\ ScenarioIs("arity") /\ Ended
  /\ out = <<"1", "2", "3", "4", "0">>
  /\ SubSeq(err, 1, 7) = ArityReports
  /\ err[8] = BorrowError


ReturnToken == Token("Return", "return", 1)

\* the statements the claim calls for, for three token streams with a
\* `return` at a statement position (<<>> for any other stream)
ReturnStatements(tokens) ==
  CASE tokens = <<ReturnToken, Token("Semicolon", ";", 1), Eof>> ->
         <<RetStmt(ReturnToken, None)>>
    [] tokens = <<ReturnToken, Token("Number", "1", 1), Token("Semicolon", ";", 1), Eof>> ->
         <<RetStmt(ReturnToken, LiteralExpr("Number", NumberV(1)))>>
    [] tokens = <<Token("LeftBrace", "{", 1), ReturnToken, Token("Semicolon", ";", 1),
                  Token("RightBrace", "}", 1), Eof>> ->
         <<BlockStmt(<<RetStmt(ReturnToken, None)>>)>>
    [] OTHER -> <<>>

C26_ReturnStatementParsed ==
  (parser.result # "none" /\ ReturnStatements(parser.tokens) # <<>>)
    => /\ parser.result = "Ok"
       /\ parser.statements = ReturnStatements(parser.tokens)
       /\ parser.reported = <<>>

\* parse() has returned Err for `return;`, with "Expect expression."
\* reported at the `return` token
C26_ReturnIsNoStatement ==
  /\ parser.tokens = <<ReturnToken, Token("Semicolon", ";", 1), Eof>>
  /\ parser.result = "Err"
  /\ parser.reported = <<[token |-> ReturnToken, message |-> "Expect expression."]>>


(***************************************************************************)
(* C27: after every parse error that propagates to the top-level loop,     *)
(* synchronize leaves the cursor in one of exactly three states: at EOF,   *)
(* just after a consumed `;`, or immediately before a token that begins a  *)
(* declaration or statement (`class`, `fun`, `var`, `for`, `if`, `while`,  *)
(* `print`, `return`); parsing then resumes from there and the final       *)
(* result is Err.                                                          *)
(***************************************************************************)
StatementKeywords == {"Class", "Fun", "Var", "For", "If", "While", "Print", "Return"}

\* the cursor of a Parser is at one of the three places
Synchronized(ps) ==
  \/ Parser_is_at_end(ps)
  \/ ps.current > 0 /\ Parser_previous(ps).token_type = "Semicolon"
  \/ Parser_peek(ps).token_type \in StatementKeywords

\* an iteration of the loop of parse() that took the Err arm: it pushed no
\* statement
ErrArm ==
  /\ parser.result = "none" /\ parser'.result = "none"
  /\ parser' # parser
  /\ parser'.statements = parser.statements

C27_SynchronizeStopsAtBoundary ==
  /\ [][ErrArm => (parser'.had_error /\ Synchronized(parser'))]_vars
  /\ []((parser.had_error /\ parser.result # "none") => parser.result = "Err")

\* after an error the parser stands just after a `;` in the middle of the
\* stream, with more tokens to parse
C27_ResumesAfterSemicolon ==
  /\ parser.had_error
  /\ parser.result = "none"
  /\ parser.statements = <<>>
  /\ ~Parser_is_at_end(parser)
  /\ parser.current > 1
  /\ Parser_previous(parser).token_type = "Semicolon"
  /\ Parser_peek(parser).token_type \notin StatementKeywords


(***************************************************************************)
(* C28: for every finite token sequence that ends with an EOF token,       *)
(* Parser::parse terminates: every iteration of the top-level loop (a      *)
(* successful declaration, or an error followed by synchronize) advances   *)
(* the cursor by at least one token, the cursor never moves past the EOF   *)
(* token, and previous() is never evaluated while the cursor is 0.         *)
(* Termination is stated by its variant: the cursor grows in every         *)
(* iteration and is bounded by the position of the EOF token, so parse()   *)
(* makes at most Len(tokens) - 1 iterations before its loop condition      *)
(* fails.                                                                  *)
(***************************************************************************)
\* an iteration of the loop of parse()
Iteration ==
  /\ parser.result = "none" /\ parser'.result = "none"
  /\ parser' # parser

C28_ParseTerminates ==
  /\ [][Iteration => parser'.current > parser.current]_vars
  /\ [](/\ parser.current < Len(parser.tokens)
        /\ parser.tokens[Len(parser.tokens)].token_type = "Eof"
        /\ ~parser.underflow
        /\ Len(parser.statements) <= parser.current)

\* parse() has returned after four iterations, one of them an error that
\* synchronize recovered from at the first token of the stream
C28_ReturnedAfterIterations ==
  /\ parser.result = "Err"
  /\ Len(parser.tokens) = MaxTokens + 1
  /\ Len(parser.reported) >= 2
  /\ parser.reported[1].token = parser.tokens[1]
  /\ parser.current = MaxTokens


(***************************************************************************)
(* C29: for every program on which the resolver raises no error and in     *)
(* which no two name references are textually identical on the same source *)
(* line, whenever the evaluator performs a resolved lookup or assignment   *)
(* with distance d, the frame exactly d hops up from the current           *)
(* environment binds that name (function parameters, function-body blocks, *)
(* nested blocks, closures and the `this` frame added by method binding    *)
(* are counted identically by the resolver's scope stack and by the        *)
(* runtime chain), so a resolved access never fails with an                *)
(* undefined-variable error.                                               *)
(***************************************************************************)
\* the name references (Variable, Assign, This) of a tree, in source order
RECURSIVE ExprRefs(_)
RECURSIVE ExprsRefs(_, _)
RECURSIVE StmtRefs(_)
RECURSIVE StmtsRefs(_, _)
ExprRefs(expr) ==
  CASE expr.k = "Variable" -> <<expr>>
    [] expr.k = "This" -> <<expr>>
    [] expr.k = "Assign" -> <<expr>> \o ExprRefs(expr.value)
    [] expr.k \in {"Binary", "Logical"} -> ExprRefs(expr.left) \o ExprRefs(expr.right)
    [] expr.k = "Call" -> ExprRefs(expr.callee) \o ExprsRefs(expr.arguments, 1)
    [] expr.k = "Grouping" -> ExprRefs(expr.expression)
    [] expr.k = "Unary" -> ExprRefs(expr.right)
    [] expr.k = "Get" -> ExprRefs(expr.object)
    [] expr.k = "Set" -> ExprRefs(expr.object) \o ExprRefs(expr.value)
    [] OTHER -> <<>>

ExprsRefs(exprs, i) ==
  IF i > Len(exprs) THEN <<>> ELSE ExprRefs(exprs[i]) \o ExprsRefs(exprs, i + 1)

StmtRefs(stmt) ==
  CASE stmt.k \in {"Expression", "Print"} -> ExprRefs(stmt.expression)
    [] stmt.k = "Var" -> IF stmt.initializer # None THEN ExprRefs(stmt.initializer) ELSE <<>>
    [] stmt.k = "Return" -> IF stmt.value # None THEN ExprRefs(stmt.value) ELSE <<>>
    [] stmt.k = "Block" -> StmtsRefs(stmt.statements, 1)
    [] stmt.k = "Fun" -> StmtsRefs(stmt.body.statements, 1)
    [] stmt.k = "Class" -> StmtsRefs(stmt.methods, 1)
    [] stmt.k = "If" ->
         ExprRefs(stmt.condition) \o StmtRefs(stmt.then_branch)
         \o (IF stmt.else_branch # None THEN StmtRefs(stmt.else_branch) ELSE <<>>)
    [] stmt.k = "While" -> ExprRefs(stmt.condition) \o StmtRefs(stmt.body)
    [] OTHER -> <<>>

StmtsRefs(statements, i) ==
  IF i > Len(statements) THEN <<>>
  ELSE StmtRefs(statements[i]) \o StmtsRefs(statements, i + 1)

\* no two elements of a sequence are equal
Twinless(refs) == \A i, j \in DOMAIN refs : i # j => refs[i] # refs[j]

\* the program that runs meets the two conditions of the claim
ResolvedCleanly ==
  /\ program.src # NoProgram
  /\ Twinless(StmtsRefs(stmts, 1))
  /\ Resolver_resolve(Resolver_new, stmts, 1).reported = <<>>

C29_ResolvedAccessFindsName ==
  ResolvedCleanly =>
    \A a \in 1 .. Len(accesses) :
      accesses[a].method \in {"get_at", "assign_at"} =>
        /\ accesses[a].bound
        /\ accesses[a].found
        /\ \A i \in 1 .. Len(resolve_calls) :
             resolve_calls[i].expr = accesses[a].expr =>
               resolve_calls[i].depth = accesses[a].distance

\* `hops` has run on one line: `this` was read through five frames (the
\* blocks and parameters of two functions, up to the frame of the bound
\* method) and a variable was assigned through the frames of a closure
C29_AccessesThroughEveryFrameKind ==
  /\ ScenarioIs("hops") /\ ~program.split /\ Returned
  /\ ResolvedCleanly
  /\ \E a \in 1 .. Len(accesses) :
       /\ accesses[a].expr.k = "This"
       /\ accesses[a].method = "get_at" /\ accesses[a].distance = 5
       /\ accesses[a].bound
  /\ \E a \in 1 .. Len(accesses) :
       /\ accesses[a].method = "assign_at" /\ accesses[a].distance = 2
       /\ accesses[a].bound


(***************************************************************************)
(* C30: the resolver's scope stack and contexts obey stack discipline:     *)
(* resolving any block, function or class declaration without error leaves *)
(* the scope stack with the same depth and contents, and current_function  *)
(* and current_class with the same values, as before that node was         *)
(* entered; after resolving a whole program the scope stack is empty and   *)
(* both contexts are None.                                                 *)
(***************************************************************************)
\* resolve() has returned without a panic: an empty stack, no context
ResolverAtRest ==
  (ResolverDone /\ ~resolver.rs.panicked)
    => Context(resolver.rs) = Context(Resolver_new)

C30_NodesLeaveStackUnchanged ==
  /\ \A i \in DOMAIN resolver.rs.nodes :
       resolver.rs.nodes[i].after = resolver.rs.nodes[i].before
  /\ ResolverAtRest

\* C30 as the resolver does it: a block, and the parameters and body of a
\* function or method (resolve_function), leave the stack and both contexts
\* as they were; a function or class declaration leaves the depth and both
\* contexts as they were and adds its name, as defined, to the innermost
\* scope there was at entry (to none at top level, where the stack is
\* empty); after a whole program the stack is empty and both contexts are
\* None.
Declared(before, name) ==
  IF Len(before.scopes) = 0 THEN before
  ELSE [before EXCEPT !.scopes[Len(before.scopes)] = MapPut(@, name, TRUE)]

C30_NodesLeaveStackButForDeclaredName ==
  /\ \A i \in DOMAIN resolver.rs.nodes :
       IF resolver.rs.nodes[i].k \in {"Block", "resolve_function"}
       THEN resolver.rs.nodes[i].after = resolver.rs.nodes[i].before
       ELSE resolver.rs.nodes[i].after =
              Declared(resolver.rs.nodes[i].before, resolver.rs.nodes[i].name)
  /\ ResolverAtRest

\* a program has been resolved in which a block holds a function and a
\* class declaration: both have left their names in the scope of the block
C30_DeclarationsInsideBlock ==
  /\ ResolverDone /\ ~resolver.rs.panicked
  /\ \A k \in {"Block", "resolve_function", "Fun", "Class"} :
       \E i \in DOMAIN resolver.rs.nodes : resolver.rs.nodes[i].k = k
  /\ \A k \in {"Fun", "Class"} :
       \E i \in DOMAIN resolver.rs.nodes :
         /\ resolver.rs.nodes[i].k = k
         /\ resolver.rs.nodes[i].before.scopes # <<>>
         /\ resolver.rs.nodes[i].after # resolver.rs.nodes[i].before

====
